---- MODULE Spec2Model ----
(***************************************************************************)
(* Smart History Manager: the context analysis engine of service_worker.js *)
(* (classifyUrl, scoreSession, detectMixedSessions) and its message        *)
(* router, as state machines.                                              *)
(*                                                                         *)
(* Representation.                                                         *)
(*  - A string that the code searches or splits is a sequence of           *)
(*    one-character strings; a hostname is the sequence of its             *)
(*    dot-separated labels (what h.split(".") returns).                    *)
(*  - A url is what `new URL(url)` makes of it: kind "ok" with hostname,   *)
(*    pathname and search, kind "malformed" when the constructor throws,   *)
(*    kind "absent" when item.url is falsy.                                *)
(*  - lastVisitTime is in milliseconds, counted from the local midnight    *)
(*    that starts a Sunday; 0 stands for a falsy (missing) timestamp.      *)
(*  - Scores are exact rationals held as a number of fifths (Fifths):      *)
(*    domains.size / 5 and workSignalScore * 0.6 are both whole numbers of *)
(*    fifths.  The rounding error of IEEE doubles (at most a few ulps) is  *)
(*    not represented.                                                     *)
(***************************************************************************)
EXTENDS Integers, Sequences, FiniteSets, TLC

VARIABLES pc, url, rule, history, storage, sessions, session, idx, acc,
          scored, suggestions, msg, response, cards, ignoresHandled, deleting,
          inflight, reviewing

vars == <<pc, url, rule, history, storage, sessions, session, idx, acc,
          scored, suggestions, msg, response, cards, ignoresHandled, deleting,
          inflight, reviewing>>

(***************************************************************************)
(* Configuration                                                           *)
(***************************************************************************)
URL_INTENT_RULES ==
  <<
    [match |-> <<"/","w","a","t","c","h">>, score |-> 2, category |-> "entertainment", label |-> "Video"],
    [match |-> <<"/","s","h","o","r","t","s">>, score |-> 2, category |-> "entertainment", label |-> "Video"],
    [match |-> <<"/","c","l","i","p">>, score |-> 1, category |-> "entertainment", label |-> "Video"],
    [match |-> <<"/","v","i","d","e","o">>, score |-> 1, category |-> "entertainment", label |-> "Video"],
    [match |-> <<"/","s","t","r","e","a","m">>, score |-> 1, category |-> "entertainment", label |-> "Video"],
    [match |-> <<"/","l","i","v","e">>, score |-> 1, category |-> "entertainment", label |-> "Video"],
    [match |-> <<"/","r","e","e","l","s">>, score |-> 2, category |-> "social", label |-> "Social"],
    [match |-> <<"/","r","e","e","l">>, score |-> 2, category |-> "social", label |-> "Social"],
    [match |-> <<"/","s","t","o","r","y">>, score |-> 1, category |-> "social", label |-> "Social"],
    [match |-> <<"/","p","o","s","t">>, score |-> 1, category |-> "social", label |-> "Social"],
    [match |-> <<"/","f","e","e","d">>, score |-> 1, category |-> "social", label |-> "Social"],
    [match |-> <<"/","p","r","o","f","i","l","e">>, score |-> 1, category |-> "social", label |-> "Social"],
    [match |-> <<"/","e","x","p","l","o","r","e">>, score |-> 1, category |-> "social", label |-> "Social"],
    [match |-> <<"/","t","r","e","n","d","i","n","g">>, score |-> 1, category |-> "social", label |-> "Social"],
    [match |-> <<"/","c","a","r","t">>, score |-> 2, category |-> "shopping", label |-> "Shopping"],
    [match |-> <<"/","c","h","e","c","k","o","u","t">>, score |-> 3, category |-> "shopping", label |-> "Shopping"],
    [match |-> <<"/","w","i","s","h","l","i","s","t">>, score |-> 1, category |-> "shopping", label |-> "Shopping"],
    [match |-> <<"/","p","r","o","d","u","c","t">>, score |-> 1, category |-> "shopping", label |-> "Shopping"],
    [match |-> <<"/","i","t","e","m","/">>, score |-> 1, category |-> "shopping", label |-> "Shopping"],
    [match |-> <<"/","d","p","/">>, score |-> 1, category |-> "shopping", label |-> "Shopping"],
    [match |-> <<"/","b","u","y">>, score |-> 2, category |-> "shopping", label |-> "Shopping"],
    [match |-> <<"/","o","r","d","e","r">>, score |-> 1, category |-> "shopping", label |-> "Shopping"],
    [match |-> <<"/","a","d","s","m","a","n","a","g","e","r">>, score |-> -5, category |-> "work", label |-> "Ads Manager"],
    [match |-> <<"/","b","u","s","i","n","e","s","s">>, score |-> -4, category |-> "work", label |-> "Business"],
    [match |-> <<"/","a","n","a","l","y","t","i","c","s">>, score |-> -4, category |-> "work", label |-> "Analytics"],
    [match |-> <<"/","d","a","s","h","b","o","a","r","d">>, score |-> -4, category |-> "work", label |-> "Dashboard"],
    [match |-> <<"/","a","d","m","i","n">>, score |-> -3, category |-> "work", label |-> "Admin"],
    [match |-> <<"/","s","t","u","d","i","o">>, score |-> -3, category |-> "work", label |-> "Studio"],
    [match |-> <<"/","m","a","n","a","g","e">>, score |-> -3, category |-> "work", label |-> "Manage"],
    [match |-> <<"/","c","r","e","a","t","o","r">>, score |-> -2, category |-> "work", label |-> "Creator Tools"],
    [match |-> <<"/","r","e","p","o","r","t">>, score |-> -2, category |-> "work", label |-> "Reports"],
    [match |-> <<"/","d","o","c","s">>, score |-> -2, category |-> "work", label |-> "Docs"],
    [match |-> <<"/","a","p","i">>, score |-> -2, category |-> "work", label |-> "API"],
    [match |-> <<"/","s","e","t","t","i","n","g","s">>, score |-> -1, category |-> "work", label |-> "Settings"],
    [match |-> <<"/","c","a","m","p","a","i","g","n","s">>, score |-> -3, category |-> "work", label |-> "Campaigns"],
    [match |-> <<"/","i","n","s","i","g","h","t","s">>, score |-> -2, category |-> "work", label |-> "Insights"]
  >>

CATEGORY_META ==
  [c \in {"entertainment", "social", "shopping", "work"} |->
     CASE c = "entertainment" -> [label |-> "Video & Entertainment", icon |-> "clapper"]
       [] c = "social"        -> [label |-> "Social Media",          icon |-> "phone"]
       [] c = "shopping"      -> [label |-> "Online Shopping",       icon |-> "bags"]
       [] c = "work"          -> [label |-> "Work Activity",         icon |-> "briefcase"]]

CONFIDENCE_THRESHOLD == 4

AUTO_WORK_IGNORE_COUNT == 3

SESSION_GAP_MS == 30 * 60 * 1000

MIN_SESSION_SIZE == 5

MAX_SUGGESTIONS == 5

\* Scores are counted in fifths of a point.
Fifths == 5

\* workSignalScore * 0.6, in fifths of a point per work signal.
WORK_WEIGHT_FIFTHS == 3

(***************************************************************************)
(* JavaScript values                                                       *)
(***************************************************************************)
\* null, as returned by classifyUrl.
null == [isNull |-> TRUE]

\* null where a hostname is expected (getDomain, getRootDomain).  A parsed
\* url always has at least one label, so the empty sequence is free for it.
nullDomain == <<>>

\* The result of reading a property that an object does not have.
undefined == "undefined"

Min(a, b) == IF a <= b THEN a ELSE b

Max(a, b) == IF a >= b THEN a ELSE b

Abs(n) == IF n < 0 THEN 0 - n ELSE n

\* obj after obj[key] = value, for an object held as a function from its keys.
Put(obj, key, value) ==
  [k \in DOMAIN obj \cup {key} |-> IF k = key THEN value ELSE obj[k]]

\* obj after delete obj[key].
Delete(obj, key) == [k \in DOMAIN obj \ {key} |-> obj[k]]

\* The object {}.
EmptyObject == [k \in {} |-> undefined]

UPPER == <<"A","B","C","D","E","F","G","H","I","J","K","L","M",
           "N","O","P","Q","R","S","T","U","V","W","X","Y","Z">>

LOWER == <<"a","b","c","d","e","f","g","h","i","j","k","l","m",
           "n","o","p","q","r","s","t","u","v","w","x","y","z">>

\* String.prototype.toLowerCase on a sequence of characters.
toLowerCase(s) ==
  [k \in 1..Len(s) |->
     IF \E j \in 1..26 : UPPER[j] = s[k]
       THEN LOWER[CHOOSE j \in 1..26 : UPPER[j] = s[k]]
       ELSE s[k]]

\* String.prototype.includes: m occurs in s as a contiguous substring.
includes(s, m) ==
  \E k \in 0..(Len(s) - Len(m)) : \A j \in 1..Len(m) : s[k + j] = m[j]

(***************************************************************************)
(* Helpers                                                                 *)
(***************************************************************************)
\* The property key a domain is looked up under: obj[null] reads "null".
Key(d) == IF d = nullDomain THEN <<"null">> ELSE d

getDomain(u) == IF u.kind = "ok" THEN u.hostname ELSE nullDomain

getRootDomain(u) ==
  LET h == getDomain(u) IN
    IF h = nullDomain THEN nullDomain
    ELSE IF Len(h) > 2 THEN SubSeq(h, Len(h) - 1, Len(h)) ELSE h

getPath(u) ==
  IF u.kind = "ok" THEN toLowerCase(u.pathname \o u.search) ELSE <<>>

\* A scan that keeps the last matching rule instead of the first.
FirstMatch_lastWins(path, k) ==
  LET ms == {j \in k..Len(URL_INTENT_RULES) :
               includes(path, URL_INTENT_RULES[j].match)}
  IN IF ms = {} THEN null
     ELSE URL_INTENT_RULES[CHOOSE j \in ms : \A h \in ms : h <= j]

RECURSIVE FirstMatch(_, _)
\* The for-of loop of classifyUrl, from rule k on.
FirstMatch(path, k) ==
  IF k > Len(URL_INTENT_RULES) THEN null
  ELSE IF includes(path, URL_INTENT_RULES[k].match) THEN URL_INTENT_RULES[k]
  ELSE FirstMatch(path, k + 1)

classifyUrl(u) == FirstMatch(getPath(u), 1)

\* Tiers that start above 9 and above 6 points.
getConfidence_aboveTiers(score) ==
  IF score > 9 * Fifths THEN "high"
  ELSE IF score > 6 * Fifths THEN "medium"
  ELSE "low"

getConfidence(score) ==
  IF score >= 9 * Fifths THEN "high"
  ELSE IF score >= 6 * Fifths THEN "medium"
  ELSE "low"

(***************************************************************************)
(* Local time (Date.prototype.getHours, getDay)                            *)
(***************************************************************************)
MS_PER_MINUTE == 60000

MS_PER_HOUR == 3600000

MS_PER_DAY == 86400000

getHours(t) == (t \div MS_PER_HOUR) % 24

\* 0 is Sunday, 6 is Saturday.
getDay(t) == (t \div MS_PER_DAY) % 7

(***************************************************************************)
(* scoreSession                                                            *)
(***************************************************************************)
\* value || fallback for a property read, where every stored value is truthy
\* or equal to the fallback.
GetOr(obj, key, fallback) == IF key \in DOMAIN obj THEN obj[key] ELSE fallback

\* Set.prototype.add on a set held in insertion order.
SetAdd(s, x) == IF \E k \in 1..Len(s) : s[k] = x THEN s ELSE Append(s, x)

\* Map.prototype.has on categoryHits, held as its entries in insertion order.
MapHas(hits, category) == \E k \in 1..Len(hits) : hits[k].category = category

\* The state of the locals of scoreSession before the first item.
ScoreStart ==
  [urlIntentScore |-> 0, workSignalScore |-> 0, categoryHits |-> <<>>,
   domains |-> <<>>]

\* Recording a positive rule hit in categoryHits.
RecordHit(hits, r, itemUrl) ==
  LET meta  == IF r.category \in DOMAIN CATEGORY_META
                 THEN CATEGORY_META[r.category]
                 ELSE [label |-> r.category, icon |-> "link"]
      hits0 == IF MapHas(hits, r.category) THEN hits
               ELSE Append(hits, [category |-> r.category, label |-> meta.label,
                                  icon |-> meta.icon, count |-> 0, urls |-> <<>>])
  IN [k \in 1..Len(hits0) |->
        IF hits0[k].category = r.category
          THEN [hits0[k] EXCEPT !.count = @ + 1, !.urls = Append(@, itemUrl)]
          ELSE hits0[k]]

\* A lookup by hostname alone, without the root domain.
PrefOf_exactOnly(u, domainPrefs) ==
  GetOr(domainPrefs, Key(getDomain(u)), undefined)

\* domainPrefs[domain] || domainPrefs[rootDomain]
PrefOf(u, domainPrefs) ==
  GetOr(domainPrefs, Key(getDomain(u)),
        GetOr(domainPrefs, Key(getRootDomain(u)), undefined))

\* (ignoreCounts[rootDomain] || 0)
IgnoreCountOf(u, ignoreCounts) == GetOr(ignoreCounts, Key(getRootDomain(u)), 0)

\* A comparison that needs one ignore more than AUTO_WORK_IGNORE_COUNT.
IsAutoWork_strict(ignoreCount) == ignoreCount > AUTO_WORK_IGNORE_COUNT

\* ignoreCount >= AUTO_WORK_IGNORE_COUNT
IsAutoWork(ignoreCount) == ignoreCount >= AUTO_WORK_IGNORE_COUNT

\* One iteration of the for-of loop of scoreSession.
ScoreItem(a, item, domainPrefs, ignoreCounts) ==
  LET domain      == getDomain(item.url)
      a1          == IF domain # nullDomain
                       THEN [a EXCEPT !.domains = SetAdd(@, domain)] ELSE a
      pref        == PrefOf(item.url, domainPrefs)
      a2          == IF pref = "personal"
                       THEN [a1 EXCEPT !.urlIntentScore = @ + 1] ELSE a1
      ignoreCount == IgnoreCountOf(item.url, ignoreCounts)
      r           == classifyUrl(item.url)
  IN IF pref = "work" THEN [a1 EXCEPT !.workSignalScore = @ + 3]
     ELSE IF IsAutoWork(ignoreCount)
       THEN [a2 EXCEPT !.workSignalScore = @ + 2]
     ELSE IF r = null THEN a2
     ELSE IF r.score < 0 THEN [a2 EXCEPT !.workSignalScore = @ + Abs(r.score)]
     ELSE [a2 EXCEPT !.urlIntentScore = @ + r.score,
                     !.categoryHits  = RecordHit(@, r, item.url)]

RECURSIVE ScoreLoop(_, _, _, _, _)
\* The loop of scoreSession over items k..n of the session.
ScoreLoop(a, s, k, domainPrefs, ignoreCounts) ==
  IF k > Len(s) THEN a
  ELSE ScoreLoop(ScoreItem(a, s[k], domainPrefs, ignoreCounts), s, k + 1,
                 domainPrefs, ignoreCounts)

\* The categories in the order of their first hit.
SortCategories_asInserted(hits) == hits

\* [...categoryHits.values()].sort((a, b) => b.count - a.count), a stable sort.
SortCategories(hits) ==
  LET n       == Len(hits)
      Rank(k) == Cardinality({j \in 1..n :
                    \/ hits[j].count > hits[k].count
                    \/ hits[j].count = hits[k].count /\ j < k}) + 1
  IN [p \in 1..n |-> hits[CHOOSE k \in 1..n : Rank(k) = p]]

\* Tiers that start at 3 and at 8 pages per minute, not above them.
RapidScore_inclusiveTiers(s) ==
  LET n          == Len(s)
      durationMs == s[n].lastVisitTime - s[1].lastVisitTime
  IN IF n >= 3 /\ durationMs > 0
       THEN IF n * MS_PER_MINUTE >= 8 * durationMs THEN 2
            ELSE IF n * MS_PER_MINUTE >= 3 * durationMs THEN 1
            ELSE 0
       ELSE 0

\* Layer 3: 0, 1 or 2 from pages per minute; ppm = n / (durationMs / 60000).
RapidScore(s) ==
  LET n          == Len(s)
      durationMs == s[n].lastVisitTime - s[1].lastVisitTime
  IN IF n >= 3 /\ durationMs > 0
       THEN IF n * MS_PER_MINUTE > 8 * durationMs THEN 2
            ELSE IF n * MS_PER_MINUTE > 3 * durationMs THEN 1
            ELSE 0
       ELSE 0

\* A working day that ends at 14:00.
TimingScore_untilTwo(s) ==
  LET hour == getHours(s[1].lastVisitTime)
      day  == getDay(s[1].lastVisitTime)
  IN IF day >= 1 /\ day <= 5 /\ hour >= 9 /\ hour < 14 THEN 1 ELSE 0

\* Layer 4: 1 when the session starts on a weekday between 9:00 and 18:00.
TimingScore(s) ==
  LET hour == getHours(s[1].lastVisitTime)
      day  == getDay(s[1].lastVisitTime)
  IN IF day >= 1 /\ day <= 5 /\ hour >= 9 /\ hour < 18 THEN 1 ELSE 0

\* A total that subtracts the work signals at full weight.
Total_fullWorkWeight(urlIntent, domainVariety, rapid, timing, workSignals) ==
  Fifths * (urlIntent + rapid + timing - workSignals) + domainVariety

\* urlIntent + domainVariety + rapid + timing - workSignals * 0.6, in fifths.
Total(urlIntent, domainVariety, rapid, timing, workSignals) ==
  Fifths * urlIntent + domainVariety + Fifths * rapid + Fifths * timing
    - WORK_WEIGHT_FIFTHS * workSignals

\* The total returned as it is, without the clamp at 0.
FinalScore_unclamped(total) == total

\* Math.max(0, total)
FinalScore(total) == Max(0, total)

\* What scoreSession computes and returns after the loop.
ScoreFinish(a, s) ==
  LET domainVariety == Min(Len(a.domains), 2 * Fifths)
      rapidScore    == RapidScore(s)
      timingScore   == TimingScore(s)
      total         == Total(a.urlIntentScore, domainVariety, rapidScore,
                             timingScore, a.workSignalScore)
  IN [score      |-> FinalScore(total),
      categories |-> SortCategories(a.categoryHits),
      domains    |-> a.domains,
      breakdown  |-> [urlIntent     |-> a.urlIntentScore,
                      domainVariety |-> domainVariety,
                      rapid         |-> rapidScore,
                      timing        |-> timingScore,
                      workSignals   |-> a.workSignalScore]]

scoreSession(s, domainPrefs, ignoreCounts) ==
  ScoreFinish(ScoreLoop(ScoreStart, s, 1, domainPrefs, ignoreCounts), s)

(***************************************************************************)
(* detectMixedSessions                                                     *)
(***************************************************************************)
\* items.filter(i => i.lastVisitTime && i.url)
IsValidItem(i) == i.lastVisitTime # 0 /\ i.url.kind # "absent"

RECURSIVE InsertByTime(_, _)
\* s is ascending by time; x goes after every item that is not later than it.
InsertByTime(s, x) ==
  IF s = <<>> THEN <<x>>
  ELSE IF s[Len(s)].lastVisitTime <= x.lastVisitTime THEN Append(s, x)
  ELSE Append(InsertByTime(SubSeq(s, 1, Len(s) - 1), x), s[Len(s)])

\* The valid items in the order they were given.
SortByTime_asGiven(s) == s

RECURSIVE SortByTime(_)
\* .sort((a, b) => a.lastVisitTime - b.lastVisitTime), a stable sort.
SortByTime(s) ==
  IF s = <<>> THEN <<>>
  ELSE InsertByTime(SortByTime(SubSeq(s, 1, Len(s) - 1)), s[Len(s)])

\* A gap test that also splits at a gap of exactly SESSION_GAP_MS.
StartsNewSession_atGap(prev, next) ==
  next.lastVisitTime - prev.lastVisitTime >= SESSION_GAP_MS

\* The gap test that starts a new session.
StartsNewSession(prev, next) ==
  next.lastVisitTime - prev.lastVisitTime > SESSION_GAP_MS

RECURSIVE SplitSessions(_, _, _, _)
\* The segmentation loop from index k with the sessions closed so far and the
\* open session `current`.
SplitSessions(sorted, k, closed, current) ==
  IF k > Len(sorted) THEN Append(closed, current)
  ELSE IF StartsNewSession(sorted[k - 1], sorted[k])
    THEN SplitSessions(sorted, k + 1, Append(closed, current), <<sorted[k]>>)
    ELSE SplitSessions(sorted, k + 1, closed, Append(current, sorted[k]))

\* The sessions detectMixedSessions builds (<<>> on its early returns).
Sessions(items) ==
  LET sorted == SortByTime(SelectSeq(items, IsValidItem))
  IN IF sorted = <<>> THEN <<>>
     ELSE SplitSessions(sorted, 2, <<>>, <<sorted[1]>>)

RECURSIVE FlatUrls(_)
\* scored.categories.flatMap(c => c.urls)
FlatUrls(categories) ==
  IF categories = <<>> THEN <<>>
  ELSE categories[1].urls \o FlatUrls(Tail(categories))

\* An id made of the day the session started on.
SuggestionId_ofDay(sessionStart) == <<"session_", sessionStart \div MS_PER_DAY>>

\* `session_${sessionStart}`
SuggestionId(sessionStart) == <<"session_", sessionStart>>

\* A bar without the test for recorded categories.
Surfaces_withoutCategoryBar(s, sc) ==
  /\ Len(s) >= MIN_SESSION_SIZE
  /\ sc.score >= CONFIDENCE_THRESHOLD * Fifths

\* The size, score and category bar of the suggestion loop.
Surfaces(s, sc) ==
  /\ Len(s) >= MIN_SESSION_SIZE
  /\ sc.score >= CONFIDENCE_THRESHOLD * Fifths
  /\ Len(sc.categories) # 0

MakeSuggestion(s, sc) ==
  [id           |-> SuggestionId(s[1].lastVisitTime),
   sessionStart |-> s[1].lastVisitTime,
   sessionEnd   |-> s[Len(s)].lastVisitTime,
   totalItems   |-> Len(s),
   score        |-> sc.score,
   confidence   |-> getConfidence(sc.score),
   categories   |-> sc.categories,
   domains      |-> sc.domains,
   allUrls      |-> FlatUrls(sc.categories),
   breakdown    |-> sc.breakdown]

RECURSIVE BuildSuggestions(_, _, _)
\* The for-of loop over the sessions.
BuildSuggestions(ss, domainPrefs, ignoreCounts) ==
  IF ss = <<>> THEN <<>>
  ELSE LET s    == Head(ss)
           sc   == scoreSession(s, domainPrefs, ignoreCounts)
           rest == BuildSuggestions(Tail(ss), domainPrefs, ignoreCounts)
       IN IF Surfaces(s, sc)
            THEN <<MakeSuggestion(s, sc)>> \o rest
            ELSE rest

\* A comparator that breaks ties by the older session first.
RanksBefore_oldestFirst(a, b) ==
  \/ a.score > b.score
  \/ a.score = b.score /\ a.sessionStart < b.sessionStart

\* The comparator (a, b) => b.score - a.score || b.sessionStart - a.sessionStart
\* is negative: a sorts before b.
RanksBefore(a, b) ==
  \/ a.score > b.score
  \/ a.score = b.score /\ a.sessionStart > b.sessionStart

\* The comparator returns 0.
RanksEqual(a, b) == a.score = b.score /\ a.sessionStart = b.sessionStart

\* suggestions.sort(comparator), a stable sort.
SortSuggestions(sug) ==
  LET n       == Len(sug)
      Rank(k) == Cardinality({j \in 1..n :
                    \/ RanksBefore(sug[j], sug[k])
                    \/ RanksEqual(sug[j], sug[k]) /\ j < k}) + 1
  IN [p \in 1..n |-> sug[CHOOSE k \in 1..n : Rank(k) = p]]

\* No truncation: every ranked suggestion is returned.
Truncate_none(sug) == sug

\* .slice(0, 5)
Truncate(sug) == SubSeq(sug, 1, Min(Len(sug), MAX_SUGGESTIONS))

\* An argument that items.sort(...) reorders in place.
ItemsAfterDetect_sortedInPlace(items) == SortByTime(items)

\* The argument `items` once detectMixedSessions has returned: .filter(...)
\* makes the array that .sort(...) reorders, and the items are only read.
ItemsAfterDetect(items) == items

detectMixedSessions(items, domainPrefs, ignoreCounts) ==
  Truncate(SortSuggestions(
    BuildSuggestions(Sessions(items), domainPrefs, ignoreCounts)))

(***************************************************************************)
(* Bounds and input universes                                              *)
(***************************************************************************)
\* Path segments joined into the pathname of a classified url.
MaxSegments == 2

\* Items of a session handed to scoreSession.
MaxSessionLen == 3

\* Items of a history handed to the segmentation.
MaxItems == 4

\* Session slots of a history handed to the ranking.
NumSlots == 6

\* Domains carried by one IGNORE_SUGGESTION message.
MaxDomains == 2

\* Cap on a stored ignore counter (the code has none).
MaxIgnoreCount == 4

\* Choices of the three inner timestamps of the worked example.
NumOffsets == 5

Url(host, pathname, search) ==
  [kind |-> "ok", hostname |-> host, pathname |-> pathname, search |-> search]

\* A string `new URL` throws on.
MalformedUrl ==
  [kind |-> "malformed", hostname |-> <<>>, pathname |-> <<>>, search |-> <<>>]

\* A falsy item.url.
AbsentUrl ==
  [kind |-> "absent", hostname |-> <<>>, pathname |-> <<>>, search |-> <<>>]

Item(n, u, t) == [id |-> n, url |-> u, lastVisitTime |-> t]

YOUTUBE == <<"youtube", "com">>

WWW_YOUTUBE == <<"www", "youtube", "com">>

M_YOUTUBE == <<"m", "youtube", "com">>

NEWS == <<"news", "org">>

MAIL == <<"mail", "net">>

WIKI == <<"wiki", "io">>

MAPS == <<"maps", "dev">>

BLOG == <<"blog", "app">>

NoSearch == <<>>

ROOT_PATH == <<"/">>

\* Wednesday 09:00 local time.
WED_9H == 3 * MS_PER_DAY + 9 * MS_PER_HOUR

\* Saturday 20:00 local time.
SAT_20H == 6 * MS_PER_DAY + 20 * MS_PER_HOUR

EmptyStorage ==
  [ignoredSessions |-> <<>>, domainPrefs |-> EmptyObject,
   domainIgnoreCounts |-> EmptyObject]

StorageWith(prefs, counts) ==
  [ignoredSessions |-> <<>>, domainPrefs |-> prefs, domainIgnoreCounts |-> counts]

\* The object {key: value}.
Obj1(key, value) == Put(EmptyObject, key, value)

NoMsg == [type |-> "none"]

\* No DELETE_ITEMS message has been handled.
NoDelete ==
  [urls |-> <<>>, pending |-> {}, completed |-> 0, errored |-> 0,
   responses |-> <<>>]

NoResponse == [type |-> "none"]

\* No Review button has been clicked.
NoReview ==
  [clicked |-> FALSE, id |-> <<>>, sessionStart |-> 0, sessionEnd |-> 0,
   matched |-> FALSE, urlSet |-> {}, filtered |-> <<>>]

(***************************************************************************)
(* classifyUrl on its own                                                  *)
(***************************************************************************)
Segments ==
  { <<"/","r","e","e","l","s">>, <<"/","r","e","e","l">>, <<"/","w","a","t","c","h">>, <<"/","D","a","s","h","b","o","a","r","d">>, <<"/","x">>, <<"/","l","i","v","e">>,
    <<"/","c","h","e","c","k","o","u","t">> }

Searches == { NoSearch, <<"?","n","e","x","t","=","/","c","a","r","t">> }

RECURSIVE Paths(_)
\* The pathnames made of at most n segments; the empty pathname is "/".
Paths(n) ==
  IF n = 0 THEN { <<>> }
  ELSE Paths(n - 1) \cup { p \o s : p \in Paths(n - 1), s \in Segments }

ClassifyUrls ==
  { Url(YOUTUBE, IF p = <<>> THEN ROOT_PATH ELSE p, q) :
      p \in Paths(MaxSegments), q \in Searches } \cup { MalformedUrl }

InitClassify ==
  /\ pc = "classify"
  /\ cards = <<>>
  /\ ignoresHandled = 0
  /\ deleting = NoDelete
  /\ inflight = <<>>
  /\ reviewing = NoReview
  /\ url \in ClassifyUrls
  /\ rule = null
  /\ history = <<>>
  /\ storage = EmptyStorage
  /\ sessions = <<>>
  /\ session = <<>>
  /\ idx = 0
  /\ acc = ScoreStart
  /\ scored = null
  /\ suggestions = <<>>
  /\ msg = NoMsg
  /\ response = NoResponse

\* A call of classifyUrl(url).
Classify ==
  /\ pc = "classify"
  /\ rule' = classifyUrl(url)
  /\ pc' = "done"
  /\ UNCHANGED <<reviewing, inflight, cards, ignoresHandled, deleting,
                 url, history, storage, sessions, session, idx, acc, scored,
                 suggestions, msg, response>>

NextClassify == Classify

SpecClassify == InitClassify /\ [][NextClassify]_vars

\* m occurs in p as a contiguous substring.
Occurs(m, p) ==
  \E k \in 1..(Len(p) - Len(m) + 1) : SubSeq(p, k, k + Len(m) - 1) = m

\* The lower-cased path+query of the classified url.
LoweredPath == toLowerCase(url.pathname \o url.search)

\* The indices of the rules whose match string occurs in the lowered path.
MatchingRules ==
  {k \in 1..Len(URL_INTENT_RULES) : Occurs(URL_INTENT_RULES[k].match, LoweredPath)}

RuleIndex(m) == CHOOSE k \in 1..Len(URL_INTENT_RULES) : URL_INTENT_RULES[k].match = m

\* C8: classifyUrl returns the matching rule of smallest table index, and null
\* when no rule matches or the url does not parse; of the two rules "/reels"
\* and "/reel", a path containing "/reels" never resolves to "/reel", and it
\* resolves to "/reels" whenever no rule listed before it matches.
C8_FirstMatchWins ==
  pc = "done" =>
    /\ url.kind # "ok" => rule = null
    /\ url.kind = "ok" /\ MatchingRules = {} => rule = null
    /\ url.kind = "ok" /\ MatchingRules # {} =>
         rule = URL_INTENT_RULES[CHOOSE k \in MatchingRules :
                                   \A j \in MatchingRules : k <= j]
    /\ url.kind = "ok" /\ Occurs(<<"/","r","e","e","l","s">>, LoweredPath) =>
         /\ rule # URL_INTENT_RULES[RuleIndex(<<"/","r","e","e","l">>)]
         /\ RuleIndex(<<"/","r","e","e","l","s">>) < RuleIndex(<<"/","r","e","e","l">>)
         /\ (\A k \in MatchingRules : k >= RuleIndex(<<"/","r","e","e","l","s">>)) =>
              rule = URL_INTENT_RULES[RuleIndex(<<"/","r","e","e","l","s">>)]

\* A path with "/reels" and the longer, higher-scored "/checkout" was
\* classified as "/reels".
C8_Witness ==
  /\ pc = "done"
  /\ url.kind = "ok"
  /\ Occurs(<<"/","r","e","e","l","s">>, LoweredPath)
  /\ Occurs(<<"/","c","h","e","c","k","o","u","t">>, LoweredPath)
  /\ rule = URL_INTENT_RULES[RuleIndex(<<"/","r","e","e","l","s">>)]

(***************************************************************************)
(* scoreSession on its own                                                 *)
(***************************************************************************)
U_WATCH == Url(YOUTUBE, <<"/","w","a","t","c","h">>, <<"?","v","=","x">>)

U_FEED == Url(WWW_YOUTUBE, <<"/","f","e","e","d">>, NoSearch)

U_DASHBOARD == Url(YOUTUBE, <<"/","d","a","s","h","b","o","a","r","d">>, NoSearch)

U_NEWS == Url(NEWS, ROOT_PATH, NoSearch)

ScoreUrls == { U_WATCH, U_FEED, U_DASHBOARD, U_NEWS, MalformedUrl }

\* A first timestamp and the spacing of the items after it.
ScoreTimings ==
  { [start |-> WED_9H + 5 * MS_PER_HOUR, step |-> 20000],
    [start |-> SAT_20H,                  step |-> 40000] }

ScorePrefs ==
  { EmptyObject,
    Obj1(YOUTUBE, "work"),
    Obj1(YOUTUBE, "personal"),
    Put(Obj1(YOUTUBE, "work"), WWW_YOUTUBE, "personal"),
    Put(Obj1(YOUTUBE, "work"), NEWS, "work") }

ScoreCounts ==
  { EmptyObject,
    Obj1(YOUTUBE, AUTO_WORK_IGNORE_COUNT - 1),
    Obj1(YOUTUBE, AUTO_WORK_IGNORE_COUNT) }

ScoreSessions ==
  UNION { { [k \in 1..n |-> Item(k, us[k], tm.start + (k - 1) * tm.step)] :
              us \in [1..n -> ScoreUrls], tm \in ScoreTimings } :
          n \in 1..MaxSessionLen }

InitScore ==
  /\ pc = "loop"
  /\ cards = <<>>
  /\ ignoresHandled = 0
  /\ deleting = NoDelete
  /\ inflight = <<>>
  /\ reviewing = NoReview
  /\ session \in ScoreSessions
  /\ storage \in { StorageWith(p, c) : p \in ScorePrefs, c \in ScoreCounts }
  /\ idx = 1
  /\ acc = ScoreStart
  /\ scored = null
  /\ url = AbsentUrl
  /\ rule = null
  /\ history = <<>>
  /\ sessions = <<>>
  /\ suggestions = <<>>
  /\ msg = NoMsg
  /\ response = NoResponse

\* One iteration of the loop of scoreSession(session, domainPrefs, ignoreCounts).
ScoreStep ==
  /\ pc = "loop"
  /\ idx <= Len(session)
  /\ acc' = ScoreItem(acc, session[idx], storage.domainPrefs,
                      storage.domainIgnoreCounts)
  /\ idx' = idx + 1
  /\ UNCHANGED <<reviewing, inflight, cards, ignoresHandled, deleting,
                 pc, url, rule, history, storage, sessions, session, scored,
                 suggestions, msg, response>>

\* The rest of scoreSession, after the loop.
ScoreReturn ==
  /\ pc = "loop"
  /\ idx > Len(session)
  /\ scored' = ScoreFinish(acc, session)
  /\ pc' = "done"
  /\ UNCHANGED <<reviewing, inflight, cards, ignoresHandled, deleting,
                 url, rule, history, storage, sessions, session, idx, acc,
                 suggestions, msg, response>>

NextScore == ScoreStep \/ ScoreReturn

SpecScore == InitScore /\ [][NextScore]_vars

\* C2: the returned score is max(0, urlIntent + domainVariety + rapid + timing
\* - 0.6 * workSignals) of the returned breakdown (here in fifths: 5, 1, 5, 5
\* and 3 fifths per unit), the breakdown carries the loop's two totals, and
\* the score is never negative.
C2_ScoreFromBreakdown ==
  pc = "done" =>
    LET b   == scored.breakdown
        sum == 5 * b.urlIntent + b.domainVariety + 5 * b.rapid + 5 * b.timing
                 - 3 * b.workSignals
    IN /\ b.urlIntent = acc.urlIntentScore
       /\ b.workSignals = acc.workSignalScore
       /\ scored.score = (IF sum > 0 THEN sum ELSE 0)
       /\ scored.score >= 0

\* A session whose work signals outweigh everything else was scored 0.
C2_Witness ==
  /\ pc = "done"
  /\ 5 * scored.breakdown.urlIntent + scored.breakdown.domainVariety
       + 5 * scored.breakdown.rapid + 5 * scored.breakdown.timing
       < 3 * scored.breakdown.workSignals
  /\ scored.breakdown.urlIntent > 0
  /\ scored.score = 0

\* Neither the item's hostname nor its root domain has a stored preference.
HasNoPreference(u) ==
  /\ Key(getDomain(u)) \notin DOMAIN storage.domainPrefs
  /\ Key(getRootDomain(u)) \notin DOMAIN storage.domainPrefs

\* The stored ignore counter of the item's root domain, 0 when there is none.
StoredIgnoreCount(u) ==
  IF Key(getRootDomain(u)) \in DOMAIN storage.domainIgnoreCounts
    THEN storage.domainIgnoreCounts[Key(getRootDomain(u))] ELSE 0

\* The count recorded for a category, 0 when it has no entry.
CountOf(hits, c) ==
  IF \E k \in 1..Len(hits) : hits[k].category = c
    THEN hits[CHOOSE k \in 1..Len(hits) : hits[k].category = c].count
    ELSE 0

\* The loop is about to process session[idx].
ScoringItem == pc = "loop" /\ idx <= Len(session) /\ idx' = idx + 1

\* The effect of rule classification on the totals `before`, giving `after`.
RuleApplied(before, after, u) ==
  LET r == classifyUrl(u) IN
    /\ r = null =>
         /\ after.urlIntentScore = before.urlIntentScore
         /\ after.workSignalScore = before.workSignalScore
         /\ after.categoryHits = before.categoryHits
    /\ (r # null /\ r.score < 0) =>
         /\ after.urlIntentScore = before.urlIntentScore
         /\ after.workSignalScore = before.workSignalScore - r.score
         /\ after.categoryHits = before.categoryHits
    /\ (r # null /\ r.score >= 0) =>
         /\ after.urlIntentScore = before.urlIntentScore + r.score
         /\ after.workSignalScore = before.workSignalScore
         /\ CountOf(after.categoryHits, r.category)
              = CountOf(before.categoryHits, r.category) + 1
         /\ \E k \in 1..Len(after.categoryHits) :
              /\ after.categoryHits[k].category = r.category
              /\ after.categoryHits[k].urls # <<>>
              /\ after.categoryHits[k].urls[Len(after.categoryHits[k].urls)] = u

\* C6: an item with no stored preference whose root domain has an ignore
\* counter of 3 or more is not rule-classified: categories and urlIntent stay
\* as they are, workSignals grows by exactly 2 and the hostname is in the
\* domain set; with a counter below 3 and no preference the item is
\* rule-classified.
C6_AdaptiveSkipsRules ==
  [][ScoringItem =>
       LET u == session[idx].url IN
         /\ (getRootDomain(u) # nullDomain /\ HasNoPreference(u)
               /\ StoredIgnoreCount(u) >= 3) =>
              /\ acc'.categoryHits = acc.categoryHits
              /\ acc'.urlIntentScore = acc.urlIntentScore
              /\ acc'.workSignalScore = acc.workSignalScore + 2
              /\ \E k \in 1..Len(acc'.domains) : acc'.domains[k] = getDomain(u)
         /\ (HasNoPreference(u) /\ StoredIgnoreCount(u) < 3) =>
              RuleApplied(acc, acc', u)]_vars

\* The first item was a "/watch" page of a thrice-ignored domain without a
\* preference, and it left no category and two work signals.
C6_Witness ==
  /\ pc = "loop"
  /\ idx = 2
  /\ HasNoPreference(session[1].url)
  /\ StoredIgnoreCount(session[1].url) >= 3
  /\ classifyUrl(session[1].url) # null
  /\ acc.categoryHits = <<>>
  /\ acc.urlIntentScore = 0
  /\ acc.workSignalScore = 2

\* The preference scoreSession finds for the item: by hostname, else by root.
StoredPreference(u) ==
  IF Key(getDomain(u)) \in DOMAIN storage.domainPrefs
    THEN storage.domainPrefs[Key(getDomain(u))]
  ELSE IF Key(getRootDomain(u)) \in DOMAIN storage.domainPrefs
    THEN storage.domainPrefs[Key(getRootDomain(u))]
  ELSE undefined

\* C7: an item preferenced "personal" adds 1 to urlIntent and is then always
\* rule-classified; the adaptive tier (+2 workSignals, no classification)
\* never applies to it.
C7_PersonalNeverShortCircuited ==
  [][(ScoringItem /\ StoredPreference(session[idx].url) = "personal") =>
       RuleApplied([acc EXCEPT !.urlIntentScore = @ + 1], acc',
                   session[idx].url)]_vars

\* Item k of the scored session reached the rules and matched a positive one.
PositiveHit(k) ==
  /\ StoredPreference(session[k].url) # "work"
  /\ ~(StoredIgnoreCount(session[k].url) >= AUTO_WORK_IGNORE_COUNT)
  /\ classifyUrl(session[k].url) # null
  /\ classifyUrl(session[k].url).score > 0

\* The items of the scored session with a positive hit in category c.
HitsIn(c) ==
  { k \in 1..Len(session) :
      PositiveHit(k) /\ classifyUrl(session[k].url).category = c }

\* C16: the returned categories hold one entry for each category with a
\* positive rule hit and no other, never "work"; an entry's count is the
\* number of its hits, at least 1, and the length of its urls, so the counts
\* add up to the number of items a positive rule classified; the entries are
\* in descending order of count.
C16_CategoriesCountPositiveHits ==
  pc = "done" =>
    LET cats == scored.categories
        n    == Len(cats)
    IN /\ \A j, k \in 1..n : cats[j].category = cats[k].category => j = k
       /\ { cats[j].category : j \in 1..n }
            = { classifyUrl(session[k].url).category :
                  k \in { h \in 1..Len(session) : PositiveHit(h) } }
       /\ \A j \in 1..n :
            /\ cats[j].category # "work"
            /\ cats[j].count >= 1
            /\ cats[j].count = Len(cats[j].urls)
            /\ cats[j].count = Cardinality(HitsIn(cats[j].category))
            /\ \A k \in 1..Len(cats[j].urls) :
                 \E h \in HitsIn(cats[j].category) : session[h].url = cats[j].urls[k]
       /\ \A j \in 1..(n - 1) : cats[j].count >= cats[j + 1].count

\* The category hit second has more hits than the one hit first and is
\* returned before it.
C16_Witness ==
  /\ pc = "done"
  /\ Len(scored.categories) = 2
  /\ Len(acc.categoryHits) = 2
  /\ acc.categoryHits[1].count < acc.categoryHits[2].count
  /\ scored.categories[1] = acc.categoryHits[2]

(***************************************************************************)
(* scoreSession on items whose url does not parse                          *)
(***************************************************************************)
\* The key JavaScript makes of a null domain, which is also the hostname of
\* http://null/.
NULL_KEY == Key(nullDomain)

U_NULLHOST == Url(NULL_KEY, <<"/","w","a","t","c","h">>, NoSearch)

MalformedUrls == { MalformedUrl, U_WATCH, U_NULLHOST }

MalformedPrefs ==
  { EmptyObject, Obj1(YOUTUBE, "work"), Obj1(NULL_KEY, "work"),
    Obj1(NULL_KEY, "personal") }

MalformedCounts ==
  { EmptyObject, Obj1(YOUTUBE, AUTO_WORK_IGNORE_COUNT),
    Obj1(NULL_KEY, AUTO_WORK_IGNORE_COUNT) }

MalformedSessions ==
  UNION { { [k \in 1..n |-> Item(k, us[k], WED_9H + (k - 1) * MS_PER_MINUTE)] :
              us \in [1..n -> MalformedUrls] } : n \in 1..MaxSessionLen }

InitMalformed ==
  /\ pc = "loop"
  /\ cards = <<>>
  /\ ignoresHandled = 0
  /\ deleting = NoDelete
  /\ inflight = <<>>
  /\ reviewing = NoReview
  /\ session \in MalformedSessions
  /\ storage \in { StorageWith(p, c) : p \in MalformedPrefs, c \in MalformedCounts }
  /\ idx = 1
  /\ acc = ScoreStart
  /\ scored = null
  /\ url = AbsentUrl
  /\ rule = null
  /\ history = <<>>
  /\ sessions = <<>>
  /\ suggestions = <<>>
  /\ msg = NoMsg
  /\ response = NoResponse

SpecMalformed == InitMalformed /\ [][NextScore]_vars

\* C18: an item whose url does not parse has a null domain, a null root
\* domain and no rule, and the loop iteration on it leaves urlIntent,
\* workSignals, the domain set and the category hits as they were, whatever
\* is stored; scoreSession then returns.
C18_MalformedAddsNothing ==
  [][(ScoringItem /\ session[idx].url.kind = "malformed") =>
       /\ getDomain(session[idx].url) = nullDomain
       /\ getRootDomain(session[idx].url) = nullDomain
       /\ classifyUrl(session[idx].url) = null
       /\ acc' = acc]_vars

(***************************************************************************)
(* detectMixedSessions                                                     *)
(***************************************************************************)
\* A call of detectMixedSessions(history, domainPrefs, ignoreCounts); its
\* local `sessions` is kept next to the value it returns.
Detect ==
  /\ pc = "detect"
  /\ sessions' = Sessions(history)
  /\ suggestions' = detectMixedSessions(history, storage.domainPrefs,
                                        storage.domainIgnoreCounts)
  /\ pc' = "done"
  /\ history' = ItemsAfterDetect(history)
  /\ UNCHANGED <<reviewing, inflight, cards, ignoresHandled, deleting,
                 url, rule, storage, session, idx, acc, scored, msg, response>>

NextDetect == Detect

\* Timestamps at, just under and just over one session gap from each other;
\* 0 is a missing timestamp.
SegmentTimes ==
  { WED_9H, WED_9H + SESSION_GAP_MS, WED_9H + SESSION_GAP_MS + 1,
    WED_9H + 2 * SESSION_GAP_MS + 2 }

\* What an item of the segmented history may be, but for its identity.
SegmentKinds ==
  { [url |-> U_WATCH, lastVisitTime |-> t] : t \in SegmentTimes }
    \cup { [url |-> U_WATCH, lastVisitTime |-> 0],
           [url |-> AbsentUrl, lastVisitTime |-> WED_9H + 1] }

SegmentHistories ==
  UNION { { [k \in 1..n |-> Item(k, ks[k].url, ks[k].lastVisitTime)] :
              ks \in [1..n -> SegmentKinds] } : n \in 0..MaxItems }

InitSegment ==
  /\ pc = "detect"
  /\ cards = <<>>
  /\ ignoresHandled = 0
  /\ deleting = NoDelete
  /\ inflight = <<>>
  /\ reviewing = NoReview
  /\ history \in SegmentHistories
  /\ storage = EmptyStorage
  /\ sessions = <<>>
  /\ suggestions = <<>>
  /\ url = AbsentUrl
  /\ rule = null
  /\ session = <<>>
  /\ idx = 0
  /\ acc = ScoreStart
  /\ scored = null
  /\ msg = NoMsg
  /\ response = NoResponse

SpecSegment == InitSegment /\ [][NextDetect]_vars

\* The positions <<a, b>> of the items held in the sessions.
Positions ==
  UNION { { <<a, b>> : b \in 1..Len(sessions[a]) } : a \in 1..Len(sessions) }

\* The item has both a url and a lastVisitTime.
HasUrlAndTime(i) == i.url.kind # "absent" /\ i.lastVisitTime # 0

\* C1: the sessions partition the items that have both a url and a
\* lastVisitTime (each such item is in exactly one place, nothing else is in
\* a session), gaps inside a session are at most 1,800,000 ms and the gap
\* from the end of a session to the start of the next is more than that.
C1_SessionsPartitionValidItems ==
  pc = "done" =>
    /\ \A k \in 1..Len(history) :
         Cardinality({p \in Positions : sessions[p[1]][p[2]] = history[k]})
           = (IF HasUrlAndTime(history[k]) THEN 1 ELSE 0)
    /\ \A p \in Positions :
         \E k \in 1..Len(history) : history[k] = sessions[p[1]][p[2]]
    /\ \A a \in 1..Len(sessions) :
         /\ sessions[a] # <<>>
         /\ \A b \in 1..(Len(sessions[a]) - 1) :
              /\ sessions[a][b + 1].lastVisitTime - sessions[a][b].lastVisitTime
                   <= 1800000
              /\ sessions[a][b + 1].lastVisitTime >= sessions[a][b].lastVisitTime
    /\ \A a \in 1..(Len(sessions) - 1) :
         sessions[a + 1][1].lastVisitTime
           - sessions[a][Len(sessions[a])].lastVisitTime > 1800000

\* A history with an item lacking a url or a time was split in two or more
\* sessions, one of them holding a gap of exactly 1,800,000 ms.
C1_Witness ==
  /\ pc = "done"
  /\ Len(sessions) >= 2
  /\ \E k \in 1..Len(history) : ~HasUrlAndTime(history[k])
  /\ \E a \in 1..Len(sessions) : \E b \in 1..(Len(sessions[a]) - 1) :
       sessions[a][b + 1].lastVisitTime - sessions[a][b].lastVisitTime = 1800000

\* C15 as stated: inside every session each item is strictly later than the
\* item before it.
C15_StrictlyAscending ==
  pc = "done" =>
    \A a \in 1..Len(sessions) : \A b \in 1..(Len(sessions[a]) - 1) :
      sessions[a][b].lastVisitTime < sessions[a][b + 1].lastVisitTime

\* C15, amended: inside every session no item is earlier than the item
\* before it, and valid items with the same timestamp are in the same
\* session.
C15_Ascending ==
  pc = "done" =>
    /\ \A a \in 1..Len(sessions) : \A b \in 1..(Len(sessions[a]) - 1) :
         sessions[a][b].lastVisitTime <= sessions[a][b + 1].lastVisitTime
    /\ \A p, q \in Positions :
         sessions[p[1]][p[2]].lastVisitTime = sessions[q[1]][q[2]].lastVisitTime
           => p[1] = q[1]

\* A session holds two visits of the same millisecond between two others.
C15_Witness ==
  /\ pc = "done"
  /\ \E a \in 1..Len(sessions) : \E b \in 2..(Len(sessions[a]) - 2) :
       /\ sessions[a][b - 1].lastVisitTime < sessions[a][b].lastVisitTime
       /\ sessions[a][b].lastVisitTime = sessions[a][b + 1].lastVisitTime
       /\ sessions[a][b + 1].lastVisitTime < sessions[a][b + 2].lastVisitTime

(***************************************************************************)
(* Histories made of sessions, for the ranking                             *)
(***************************************************************************)
Visit(host, pathname, search, offset) ==
  [url |-> Url(host, pathname, search), offset |-> offset]

\* Five personal pages on youtube.com in two minutes (score 9.2).
T_HIGH ==
  << Visit(YOUTUBE, <<"/","w","a","t","c","h">>, <<"?","x">>, 0),
     Visit(YOUTUBE, <<"/","w","a","t","c","h">>, <<"?","y">>, 30000),
     Visit(YOUTUBE, <<"/","s","h","o","r","t","s">>, NoSearch, 60000),
     Visit(YOUTUBE, <<"/","f","e","e","d">>, NoSearch, 90000),
     Visit(YOUTUBE, <<"/","e","x","p","l","o","r","e">>, NoSearch, 120000) >>

\* Two personal and three neutral pages on www.youtube.com (score 4.2).
T_MID ==
  << Visit(WWW_YOUTUBE, <<"/","w","a","t","c","h">>, <<"?","z">>, 0),
     Visit(WWW_YOUTUBE, <<"/","f","e","e","d">>, NoSearch, 60000),
     Visit(WWW_YOUTUBE, ROOT_PATH, NoSearch, 120000),
     Visit(WWW_YOUTUBE, <<"/","a","b","o","u","t">>, NoSearch, 180000),
     Visit(WWW_YOUTUBE, <<"/","h","e","l","p">>, NoSearch, 240000) >>

\* Five neutral pages on five domains in twenty seconds (score 4.0, no
\* category).
T_VARIETY ==
  << Visit(NEWS, ROOT_PATH, NoSearch, 0),
     Visit(MAIL, ROOT_PATH, NoSearch, 5000),
     Visit(WIKI, ROOT_PATH, NoSearch, 10000),
     Visit(MAPS, ROOT_PATH, NoSearch, 15000),
     Visit(BLOG, ROOT_PATH, NoSearch, 20000) >>

\* Four personal pages: too few for a suggestion.
T_SMALL == SubSeq(T_HIGH, 1, 4)

\* One personal and four neutral pages (score 3.2).
T_LOW ==
  << Visit(YOUTUBE, <<"/","w","a","t","c","h">>, <<"?","w">>, 0),
     Visit(YOUTUBE, ROOT_PATH, NoSearch, 60000),
     Visit(NEWS, ROOT_PATH, NoSearch, 120000),
     Visit(YOUTUBE, <<"/","a","b","o","u","t">>, NoSearch, 180000),
     Visit(YOUTUBE, <<"/","h","e","l","p">>, NoSearch, 240000) >>

\* Four video pages and a dashboard on m.youtube.com (score 6.8).
T_WORKMIX ==
  << Visit(M_YOUTUBE, <<"/","w","a","t","c","h">>, <<"?","a">>, 0),
     Visit(M_YOUTUBE, <<"/","w","a","t","c","h">>, <<"?","b">>, 60000),
     Visit(M_YOUTUBE, <<"/","d","a","s","h","b","o","a","r","d">>, NoSearch, 120000),
     Visit(M_YOUTUBE, <<"/","w","a","t","c","h">>, <<"?","c">>, 180000),
     Visit(M_YOUTUBE, <<"/","w","a","t","c","h">>, <<"?","d">>, 240000) >>

T_NONE == <<>>

\* The template only slot k offers, besides T_HIGH and T_MID.
Special(k) ==
  CASE k % 5 = 1 -> T_VARIETY
    [] k % 5 = 2 -> T_SMALL
    [] k % 5 = 3 -> T_LOW
    [] k % 5 = 4 -> T_WORKMIX
    [] OTHER     -> T_NONE

\* Slots start on the hour from Wednesday 09:00, more than a gap apart.
SlotStart(k) == WED_9H + (k - 1) * MS_PER_HOUR

RECURSIVE Chronological(_, _)
\* The visits of slots k.. of the choice, oldest first.
Chronological(choice, k) ==
  IF k > Len(choice) THEN <<>>
  ELSE [j \in 1..Len(choice[k]) |->
          [url |-> choice[k][j].url,
           lastVisitTime |-> SlotStart(k) + choice[k][j].offset]]
       \o Chronological(choice, k + 1)

\* The history as api.history.search returns it: most recent first.
HistoryOf(choice) ==
  LET c == Chronological(choice, 1)
      n == Len(c)
  IN [j \in 1..n |-> Item(j, c[n + 1 - j].url, c[n + 1 - j].lastVisitTime)]

SlotChoices(n) ==
  { c \in [1..n -> {T_HIGH, T_MID, T_VARIETY, T_SMALL, T_LOW, T_WORKMIX, T_NONE}] :
      \A k \in 1..n : c[k] \in {T_HIGH, T_MID, Special(k)} }

DetectStorages ==
  { EmptyStorage,
    StorageWith(Obj1(YOUTUBE, "work"), EmptyObject),
    StorageWith(Put(Obj1(YOUTUBE, "personal"), WWW_YOUTUBE, "work"), EmptyObject),
    StorageWith(EmptyObject, Obj1(YOUTUBE, AUTO_WORK_IGNORE_COUNT)) }

InitDetect ==
  /\ pc = "detect"
  /\ cards = <<>>
  /\ ignoresHandled = 0
  /\ deleting = NoDelete
  /\ inflight = <<>>
  /\ reviewing = NoReview
  /\ history \in { HistoryOf(c) : c \in SlotChoices(NumSlots) }
  /\ storage \in DetectStorages
  /\ sessions = <<>>
  /\ suggestions = <<>>
  /\ url = AbsentUrl
  /\ rule = null
  /\ session = <<>>
  /\ idx = 0
  /\ acc = ScoreStart
  /\ scored = null
  /\ msg = NoMsg
  /\ response = NoResponse

SpecDetect == InitDetect /\ [][NextDetect]_vars

\* scoreSession on every session of the segmentation, with the stored state.
Scores ==
  [a \in 1..Len(sessions) |->
     scoreSession(sessions[a], storage.domainPrefs, storage.domainIgnoreCounts)]

StartOf(a) == sessions[a][1].lastVisitTime

\* The sessions that clear the size, score (4 points = 20 fifths) and
\* category bar, given the scores sc of all sessions.
Qualifying(sc) ==
  { a \in 1..Len(sessions) :
      /\ Len(sessions[a]) >= 5
      /\ sc[a].score >= 20
      /\ sc[a].categories # <<>> }

\* Session a, scored sca, is the one suggestion k was made from.
MadeFrom(k, a, sca) ==
  /\ suggestions[k].sessionStart = StartOf(a)
  /\ suggestions[k].score = sca.score
  /\ suggestions[k].totalItems = Len(sessions[a])
  /\ suggestions[k].categories = sca.categories

\* <<score, start>> ranks above <<score2, start2>>.
Above(score, start, score2, start2) ==
  score > score2 \/ (score = score2 /\ start > start2)

\* C3: at most 5 suggestions are returned; with n qualifying sessions they
\* are exactly min(5, n) distinct qualifying sessions, in descending order of
\* score and, at equal score, of sessionStart, and every qualifying session
\* left out ranks below every returned one.
C3_TopFiveRanked ==
  pc = "done" =>
    LET sc == Scores
        q  == Qualifying(sc)
        n  == Cardinality(q)
        returned == { a \in q : \E k \in 1..Len(suggestions) : MadeFrom(k, a, sc[a]) }
    IN /\ Len(suggestions) <= 5
       /\ Len(suggestions) = (IF n < 5 THEN n ELSE 5)
       /\ \A k \in 1..Len(suggestions) : \E a \in q : MadeFrom(k, a, sc[a])
       /\ \A j, k \in 1..Len(suggestions) :
            j < k => Above(suggestions[j].score, suggestions[j].sessionStart,
                           suggestions[k].score, suggestions[k].sessionStart)
       /\ \A a \in q \ returned : \A k \in 1..Len(suggestions) :
            Above(suggestions[k].score, suggestions[k].sessionStart,
                  sc[a].score, StartOf(a))

\* More than 5 sessions qualified, and the 5 returned hold both a tie on the
\* score and two different scores.
C3_Witness ==
  /\ pc = "done"
  /\ Cardinality(Qualifying(Scores)) > 5
  /\ Len(suggestions) = 5
  /\ \E j, k \in 1..5 : j < k /\ suggestions[j].score = suggestions[k].score
  /\ \E j, k \in 1..5 : suggestions[j].score # suggestions[k].score

\* C4: every suggestion comes from a session of at least 5 items, with a score
\* of at least 4 and at least one recorded category; a session whose score of
\* 4 or more holds no url intent at all is never surfaced.
C4_OnlyQualifyingSurface ==
  pc = "done" =>
    LET sc == Scores IN
    /\ \A k \in 1..Len(suggestions) :
         /\ suggestions[k].score >= 20
         /\ suggestions[k].categories # <<>>
         /\ suggestions[k].totalItems >= 5
         /\ \E a \in 1..Len(sessions) :
              /\ MadeFrom(k, a, sc[a])
              /\ Len(sessions[a]) >= 5
              /\ \E j \in 1..Len(sessions[a]) :
                   /\ classifyUrl(sessions[a][j].url) # null
                   /\ classifyUrl(sessions[a][j].url).score > 0
    /\ \A a \in 1..Len(sessions) :
         (sc[a].score >= 20 /\ sc[a].breakdown.urlIntent = 0) =>
            \A k \in 1..Len(suggestions) :
              suggestions[k].sessionStart # StartOf(a)

\* A session of 5 items scored 4 or more on variety, rapid navigation and
\* timing alone and was left out, next to a session that was surfaced.
C4_Witness ==
  /\ pc = "done"
  /\ suggestions # <<>>
  /\ \E a \in 1..Len(sessions) :
       LET sca == Scores[a] IN
       /\ Len(sessions[a]) >= 5
       /\ sca.score >= 20
       /\ sca.breakdown.urlIntent = 0
       /\ sca.breakdown.workSignals = 0
       /\ \A k \in 1..Len(suggestions) : suggestions[k].sessionStart # StartOf(a)

\* The preference scoreSession finds for every item of session a is "work":
\* stored for the hostname, or for the root domain when the hostname has none.
AllWork(a) ==
  \A j \in 1..Len(sessions[a]) : StoredPreference(sessions[a][j].url) = "work"

\* C5: a session whose items are all preferenced "work", by hostname or by
\* root domain, has no categories, urlIntent 0 and workSignals 3 per item,
\* whatever its paths, and is never surfaced.
C5_AllWorkSessionIsSilent ==
  pc = "done" =>
    \A a \in 1..Len(sessions) :
      AllWork(a) =>
        LET sca == Scores[a] IN
        /\ sca.categories = <<>>
        /\ sca.breakdown.urlIntent = 0
        /\ sca.breakdown.workSignals = 3 * Len(sessions[a])
        /\ \A k \in 1..Len(suggestions) :
             suggestions[k].sessionStart # StartOf(a)

\* A session of 5 personal pages, "work" through the root domain of its
\* hostname, stayed silent.
C5_Witness ==
  /\ pc = "done"
  /\ \E a \in 1..Len(sessions) :
       /\ AllWork(a)
       /\ Len(sessions[a]) >= 5
       /\ \E j \in 1..Len(sessions[a]) :
            /\ classifyUrl(sessions[a][j].url) # null
            /\ classifyUrl(sessions[a][j].url).score > 0
            /\ getDomain(sessions[a][j].url) \notin DOMAIN storage.domainPrefs
       /\ Scores[a].score = 0

\* C23: two sessions of one segmentation start more than SESSION_GAP_MS
\* apart, so in one result no two suggestions share an id or a sessionStart,
\* and each suggestion ranks strictly before the next: by a higher score or,
\* at equal scores, by a later start.
C23_IdsDistinct ==
  pc = "done" =>
    /\ \A a, b \in 1..Len(sessions) :
         a < b => sessions[b][1].lastVisitTime - sessions[a][1].lastVisitTime
                    > SESSION_GAP_MS
    /\ \A j, k \in 1..Len(suggestions) :
         j < k =>
           /\ suggestions[j].id # suggestions[k].id
           /\ suggestions[j].sessionStart # suggestions[k].sessionStart
           /\ \/ suggestions[j].score > suggestions[k].score
              \/ /\ suggestions[j].score = suggestions[k].score
                 /\ suggestions[j].sessionStart > suggestions[k].sessionStart

\* Five suggestions, three of them with the same score.
C23_Witness ==
  /\ pc = "done"
  /\ Len(suggestions) = MAX_SUGGESTIONS
  /\ \E j \in 1..(MAX_SUGGESTIONS - 2) :
       /\ suggestions[j].score = suggestions[j + 1].score
       /\ suggestions[j].score = suggestions[j + 2].score

(***************************************************************************)
(* The worked example: five youtube.com pages in two minutes               *)
(***************************************************************************)
\* Where the three inner visits may fall inside the two minutes.
ExampleOffsets == { (k * 120000) \div (NumOffsets + 1) : k \in 1..NumOffsets }

\* The five visits, starting at 14:00 on day d, oldest first.
ExampleVisits(d, o) ==
  LET start == d * MS_PER_DAY + 14 * MS_PER_HOUR IN
    << Item(1, Url(YOUTUBE, <<"/","w","a","t","c","h">>, <<"?","x">>), start),
       Item(2, Url(YOUTUBE, <<"/","w","a","t","c","h">>, <<"?","y">>), start + o[1]),
       Item(3, Url(YOUTUBE, <<"/","s","h","o","r","t","s">>, NoSearch), start + o[2]),
       Item(4, Url(YOUTUBE, <<"/","f","e","e","d">>, NoSearch), start + o[3]),
       Item(5, Url(YOUTUBE, <<"/","e","x","p","l","o","r","e">>, NoSearch), start + 120000) >>

Reversed(s) == [j \in 1..Len(s) |-> s[Len(s) + 1 - j]]

ExampleHistories ==
  UNION { { ExampleVisits(d, o), Reversed(ExampleVisits(d, o)) } :
            d \in 1..5,
            o \in { t \in ExampleOffsets \X ExampleOffsets \X ExampleOffsets :
                      t[1] <= t[2] /\ t[2] <= t[3] } }

InitExample ==
  /\ pc = "detect"
  /\ cards = <<>>
  /\ ignoresHandled = 0
  /\ deleting = NoDelete
  /\ inflight = <<>>
  /\ reviewing = NoReview
  /\ history \in ExampleHistories
  /\ storage = EmptyStorage
  /\ sessions = <<>>
  /\ suggestions = <<>>
  /\ url = AbsentUrl
  /\ rule = null
  /\ session = <<>>
  /\ idx = 0
  /\ acc = ScoreStart
  /\ scored = null
  /\ msg = NoMsg
  /\ response = NoResponse

SpecExample == InitExample /\ [][NextDetect]_vars

\* C9: the five pages /watch?x, /watch?y, /shorts, /feed, /explore on
\* youtube.com, spanning two minutes from 14:00 on a weekday, without
\* preferences or ignore counters, give exactly one suggestion: urlIntent 8,
\* domainVariety 0.2 (1 fifth), rapid 0, timing 1, workSignals 0, score 9.2
\* (46 fifths), confidence "high", entertainment (3) before social (2).
C9_WorkedExample ==
  pc = "done" =>
    /\ Len(suggestions) = 1
    /\ suggestions[1].breakdown =
         [urlIntent |-> 8, domainVariety |-> 1, rapid |-> 0, timing |-> 1,
          workSignals |-> 0]
    /\ suggestions[1].score = 46
    /\ suggestions[1].confidence = "high"
    /\ suggestions[1].totalItems = 5
    /\ Len(suggestions[1].categories) = 2
    /\ suggestions[1].categories[1].category = "entertainment"
    /\ suggestions[1].categories[1].count = 3
    /\ suggestions[1].categories[2].category = "social"
    /\ suggestions[1].categories[2].count = 2
    /\ Len(sessions) = 1
    /\ scoreSession(sessions[1], EmptyObject, EmptyObject).score = 46

\* The example on a Wednesday, handed over most recent first, was surfaced.
C9_Witness ==
  /\ pc = "done"
  /\ Len(history) = 5
  /\ getDay(history[5].lastVisitTime) = 3
  /\ getHours(history[5].lastVisitTime) = 14
  /\ history[1].lastVisitTime - history[5].lastVisitTime = 120000
  /\ history[5].url = Url(YOUTUBE, <<"/","w","a","t","c","h">>, <<"?","x">>)
  /\ Len(suggestions) = 1

(***************************************************************************)
(* The message router, one message at a time                               *)
(***************************************************************************)
\* msg.pref === null
NullPref == "<null>"

\* The history the browser holds: a 9.2 session on youtube.com and a 4.2
\* session on www.youtube.com.
BrowserHistory == HistoryOf(<<T_HIGH, T_MID>>)

\* The ids, domain lists and preference keys that messages carry.
MessageIds == { SuggestionId(SlotStart(k)) : k \in 1..2 }

MessageDomains == { YOUTUBE, WWW_YOUTUBE, NEWS }

DomainLists ==
  UNION { [1..n -> MessageDomains] : n \in 0..MaxDomains }

PrefDomains == { YOUTUBE, WWW_YOUTUBE }

\* domain.split(".").slice(-2).join(".")
IgnoreRoot(domain) ==
  IF Len(domain) > 2 THEN SubSeq(domain, Len(domain) - 1, Len(domain))
  ELSE domain

\* counts[root] = (counts[root] || 0) + 1
Increment(counts, root) == Put(counts, root, GetOr(counts, root, 0) + 1)

RECURSIVE CountIgnores(_, _)
\* (msg.domains || []).forEach(...) on the domains from the first on.
CountIgnores(counts, domains) ==
  IF domains = <<>> THEN counts
  ELSE CountIgnores(Increment(counts, IgnoreRoot(Head(domains))), Tail(domains))

\* Array.prototype.includes on ignoredSessions.
Ignored(ignored, id) == \E k \in 1..Len(ignored) : ignored[k] = id

\* The router starts with what a fresh install stores.
Init ==
  /\ pc = "idle"
  /\ cards = <<>>
  /\ ignoresHandled = 0
  /\ deleting = NoDelete
  /\ inflight = <<>>
  /\ reviewing = NoReview
  /\ history = BrowserHistory
  /\ storage = EmptyStorage
  /\ msg = NoMsg
  /\ response = NoResponse
  /\ suggestions = <<>>
  /\ sessions = <<>>
  /\ url = AbsentUrl
  /\ rule = null
  /\ session = <<>>
  /\ idx = 0
  /\ acc = ScoreStart
  /\ scored = null

\* An answer that holds every detected suggestion, ignored or not.
SuggestionsResponse_unfiltered(st, items) ==
  detectMixedSessions(items, st.domainPrefs, st.domainIgnoreCounts)

\* What the GET_SUGGESTIONS handler answers from the stored state st and the
\* items history.search returned: the suggestions whose id is not ignored.
SuggestionsResponse(st, items) ==
  LET all == detectMixedSessions(items, st.domainPrefs, st.domainIgnoreCounts)
  IN SelectSeq(all, LAMBDA s : ~Ignored(st.ignoredSessions, s.id))

\* A handler that pushes the id without looking for it first.
StoredAfterIgnore_pushingAlways(st, id, domains) ==
  [st EXCEPT
     !.ignoredSessions = Append(@, id),
     !.domainIgnoreCounts = CountIgnores(@, domains)]

\* What the IGNORE_SUGGESTION handler stores.
StoredAfterIgnore(st, id, domains) ==
  [st EXCEPT
     !.ignoredSessions = IF Ignored(st.ignoredSessions, id) THEN @
                         ELSE Append(@, id),
     !.domainIgnoreCounts = CountIgnores(@, domains)]

\* A handler that writes the preferences and empties the ignore counters.
StoredAfterSetPref_clearingCounts(st, domain, pref) ==
  [st EXCEPT
     !.domainPrefs = IF pref = NullPref THEN Delete(@, domain)
                     ELSE Put(@, domain, pref),
     !.domainIgnoreCounts = EmptyObject]

\* What the SET_DOMAIN_PREF handler stores.
StoredAfterSetPref(st, domain, pref) ==
  [st EXCEPT
     !.domainPrefs = IF pref = NullPref THEN Delete(@, domain)
                     ELSE Put(@, domain, pref)]

\* The GET_SUGGESTIONS handler with its two callbacks; `suggestions` is its
\* local `all`, which the next handler no longer sees.
GetSuggestions ==
  /\ pc = "idle"
  /\ msg' = [type |-> "GET_SUGGESTIONS"]
  /\ suggestions' = detectMixedSessions(history, storage.domainPrefs,
                                        storage.domainIgnoreCounts)
  /\ response' = [suggestions |-> SuggestionsResponse(storage, history)]
  /\ history' = ItemsAfterDetect(history)
  /\ UNCHANGED <<reviewing, inflight, cards, ignoresHandled, deleting,
                 pc, url, rule, storage, sessions, session, idx, acc, scored>>

\* The IGNORE_SUGGESTION handler with its two callbacks.
IgnoreSuggestion(id, domains) ==
  LET stored == StoredAfterIgnore(storage, id, domains)
  IN /\ pc = "idle"
     /\ \A r \in DOMAIN stored.domainIgnoreCounts :
          stored.domainIgnoreCounts[r] <= MaxIgnoreCount
     /\ msg' = [type |-> "IGNORE_SUGGESTION", id |-> id, domains |-> domains]
     /\ storage' = stored
     /\ response' = [ok |-> TRUE]
     /\ suggestions' = <<>>
     /\ UNCHANGED <<reviewing, inflight, cards, ignoresHandled, deleting,
                    pc, url, rule, history, sessions, session, idx, acc,
                    scored>>

\* The GET_DOMAIN_PREFS handler.
GetDomainPrefs ==
  /\ pc = "idle"
  /\ msg' = [type |-> "GET_DOMAIN_PREFS"]
  /\ response' = [prefs |-> storage.domainPrefs]
  /\ suggestions' = <<>>
  /\ UNCHANGED <<reviewing, inflight, cards, ignoresHandled, deleting,
                 pc, url, rule, history, storage, sessions, session, idx, acc,
                 scored>>

\* The SET_DOMAIN_PREF handler with its two callbacks.
SetDomainPref(domain, pref) ==
  LET stored == StoredAfterSetPref(storage, domain, pref)
  IN /\ pc = "idle"
     /\ msg' = [type |-> "SET_DOMAIN_PREF", domain |-> domain, pref |-> pref]
     /\ storage' = stored
     /\ response' = [ok |-> TRUE, prefs |-> stored.domainPrefs]
     /\ suggestions' = <<>>
     /\ UNCHANGED <<reviewing, inflight, cards, ignoresHandled, deleting,
                    pc, url, rule, history, sessions, session, idx, acc,
                    scored>>

Next ==
  \/ GetSuggestions
  \/ \E id \in MessageIds, domains \in DomainLists : IgnoreSuggestion(id, domains)
  \/ GetDomainPrefs
  \/ \E domain \in PrefDomains, pref \in {"work", "personal", NullPref} :
       SetDomainPref(domain, pref)

Spec == Init /\ [][Next]_vars

\* The stored counter of root r in storage st, 0 when absent.
Counter(st, r) ==
  IF r \in DOMAIN st.domainIgnoreCounts THEN st.domainIgnoreCounts[r] ELSE 0

\* An IGNORE_SUGGESTION message is being handled.
HandlingIgnore == msg'.type = "IGNORE_SUGGESTION" /\ response' = [ok |-> TRUE]

\* C10: handling IGNORE_SUGGESTION with domain list D raises the stored
\* counter of the root domain of each domain in D by exactly 1 (to 1 when it
\* was absent) and leaves every other counter as it was.
C10_IgnoreAddsOnePerRoot ==
  [][HandlingIgnore =>
       LET roots == { IgnoreRoot(msg'.domains[k]) : k \in 1..Len(msg'.domains) }
       IN /\ \A r \in roots : Counter(storage', r) = Counter(storage, r) + 1
          /\ \A r \in (DOMAIN storage.domainIgnoreCounts
                         \cup DOMAIN storage'.domainIgnoreCounts) \ roots :
               /\ r \in DOMAIN storage.domainIgnoreCounts
               /\ r \in DOMAIN storage'.domainIgnoreCounts
               /\ storage'.domainIgnoreCounts[r] = storage.domainIgnoreCounts[r]]_vars


\* C14: handling GET_SUGGESTIONS leaves the stored preferences, counters and
\* ignored ids and the items it was given as they were; a stored counter
\* changes only while IGNORE_SUGGESTION is handled and a stored preference
\* only while SET_DOMAIN_PREF is handled.
C14_DetectionWritesNothing ==
  [][/\ msg'.type = "GET_SUGGESTIONS" => (storage' = storage /\ history' = history)
     /\ storage'.domainIgnoreCounts # storage.domainIgnoreCounts =>
          msg'.type = "IGNORE_SUGGESTION"
     /\ storage'.domainPrefs # storage.domainPrefs =>
          msg'.type = "SET_DOMAIN_PREF"]_vars

\* GET_SUGGESTIONS has been answered with a suggestion while preferences,
\* counters and ignored ids were stored.
C14_Witness ==
  /\ msg.type = "GET_SUGGESTIONS"
  /\ response.suggestions # <<>>
  /\ storage.ignoredSessions # <<>>
  /\ DOMAIN storage.domainPrefs # {}
  /\ DOMAIN storage.domainIgnoreCounts # {}

\* C22: handling SET_DOMAIN_PREF stores the given value under msg.domain, or
\* removes that key when the value is null; every other preference, the
\* ignored ids and the counters stay as they were, and the answer carries
\* the new preferences.  Removing a key just set for an unset domain
\* therefore gives back the map there was before.
C22_SetPrefTouchesOneKey ==
  [][msg'.type = "SET_DOMAIN_PREF" =>
       LET d      == msg'.domain
           before == storage.domainPrefs
           after  == storage'.domainPrefs
       IN /\ \/ storage' = storage
             \/ /\ msg'.pref = NullPref
                /\ after = [e \in DOMAIN before \ {d} |-> before[e]]
             \/ /\ msg'.pref \in {"work", "personal"}
                /\ after = [e \in DOMAIN before \cup {d} |->
                              IF e = d THEN msg'.pref ELSE before[e]]
          /\ msg'.pref = NullPref => d \notin DOMAIN after
          /\ msg'.pref # NullPref => (d \in DOMAIN after /\ after[d] = msg'.pref)
          /\ storage'.ignoredSessions = storage.ignoredSessions
          /\ storage'.domainIgnoreCounts = storage.domainIgnoreCounts
          /\ response' = [ok |-> TRUE, prefs |-> after]]_vars

\* The preference of www.youtube.com has just been removed next to the one
\* of youtube.com, with ignored ids and counters in store.
C22_Witness ==
  /\ msg.type = "SET_DOMAIN_PREF"
  /\ msg.pref = NullPref
  /\ msg.domain = WWW_YOUTUBE
  /\ DOMAIN storage.domainPrefs = {YOUTUBE}
  /\ storage.ignoredSessions # <<>>
  /\ DOMAIN storage.domainIgnoreCounts # {}

\* C26: with messages handled one after the other, ignoredSessions never
\* holds an id twice and never loses one, and no ignore counter ever goes
\* down; an IGNORE_SUGGESTION for an id that is already stored leaves
\* ignoredSessions as it is and still raises the counter of the root of
\* each domain it names.
C26_IgnoreStoreMonotone ==
  /\ [](\A j, k \in 1..Len(storage.ignoredSessions) :
          storage.ignoredSessions[j] = storage.ignoredSessions[k] => j = k)
  /\ [][/\ \A k \in 1..Len(storage.ignoredSessions) :
            \E j \in 1..Len(storage'.ignoredSessions) :
              storage'.ignoredSessions[j] = storage.ignoredSessions[k]
        /\ \A r \in DOMAIN storage.domainIgnoreCounts :
             /\ r \in DOMAIN storage'.domainIgnoreCounts
             /\ storage'.domainIgnoreCounts[r] >= storage.domainIgnoreCounts[r]
        /\ ( /\ msg'.type = "IGNORE_SUGGESTION"
             /\ \E k \in 1..Len(storage.ignoredSessions) :
                  storage.ignoredSessions[k] = msg'.id )
           => /\ storage'.ignoredSessions = storage.ignoredSessions
              /\ \A k \in 1..Len(msg'.domains) :
                   Counter(storage', IgnoreRoot(msg'.domains[k]))
                     > Counter(storage, IgnoreRoot(msg'.domains[k]))]_vars

\* The id of the message just handled was stored before, with another one,
\* and the counter of youtube.com has been raised for the third time.
C26_Witness ==
  /\ msg.type = "IGNORE_SUGGESTION"
  /\ Len(msg.domains) > 0
  /\ Len(storage.ignoredSessions) = 2
  /\ storage.ignoredSessions[1] = msg.id
  /\ Counter(storage, YOUTUBE) = 3

(***************************************************************************)
(* scoreSession on sessions of every pace                                  *)
(***************************************************************************)
MaxRapidLen == 4

\* Durations of a session of n items at, just under and just over 8 and 3
\* pages per minute, and the shortest two.
RapidDurations(n) ==
  { 0, 1, 7500 * n - 1, 7500 * n, 7500 * n + 1,
    20000 * n - 1, 20000 * n, 20000 * n + 1 }

\* n video pages, the first at `start` and the others durationMs later.
RapidSession(n, start, durationMs) ==
  [k \in 1..n |-> Item(k, U_WATCH, IF k = 1 THEN start ELSE start + durationMs)]

RapidSessions ==
  UNION { { RapidSession(n, t, d) : t \in {WED_9H, SAT_20H},
                                    d \in RapidDurations(n) } :
          n \in 1..MaxRapidLen }

InitRapid ==
  /\ pc = "loop"
  /\ cards = <<>>
  /\ ignoresHandled = 0
  /\ deleting = NoDelete
  /\ inflight = <<>>
  /\ reviewing = NoReview
  /\ session \in RapidSessions
  /\ storage = EmptyStorage
  /\ idx = 1
  /\ acc = ScoreStart
  /\ scored = null
  /\ url = AbsentUrl
  /\ rule = null
  /\ history = <<>>
  /\ sessions = <<>>
  /\ suggestions = <<>>
  /\ msg = NoMsg
  /\ response = NoResponse

SpecRapid == InitRapid /\ [][NextScore]_vars

\* The time from the first to the last item of the scored session, in ms.
DurationMs == session[Len(session)].lastVisitTime - session[1].lastVisitTime

\* pagesPerMinute = itemCount / durationMinutes exceeds x; a quotient by 0 is
\* infinite.
PagesPerMinuteAbove(x) == Len(session) * 60000 > x * DurationMs

\* C17 as stated: with 3 items or more, rapid is 2 above 8 pages per
\* minute, else 1 above 3 pages per minute, else 0; with fewer items it is 0.
C17_RapidTiers ==
  pc = "done" =>
    scored.breakdown.rapid =
      (IF Len(session) < 3 THEN 0
       ELSE IF PagesPerMinuteAbove(8) THEN 2
       ELSE IF PagesPerMinuteAbove(3) THEN 1
       ELSE 0)

\* C17, amended: the tiers apply to sessions of 3 items or more whose last
\* item is later than the first; rapid is 0 for a session of no duration and
\* for fewer than 3 items.
C17_RapidTiersOfPositiveDuration ==
  pc = "done" =>
    scored.breakdown.rapid =
      (IF Len(session) < 3 \/ DurationMs = 0 THEN 0
       ELSE IF PagesPerMinuteAbove(8) THEN 2
       ELSE IF PagesPerMinuteAbove(3) THEN 1
       ELSE 0)

\* Three or more items at exactly 8 pages per minute scored 1.
C17_Witness ==
  /\ pc = "done"
  /\ Len(session) >= 3
  /\ Len(session) * 60000 = 8 * DurationMs
  /\ scored.breakdown.rapid = 1

(***************************************************************************)
(* The popup driving the router (README.md, popup.js of the suggestions    *)
(* release): one gesture of the user sends its messages and renders the    *)
(* answer before the next gesture                                          *)
(***************************************************************************)
\* Two video pages on two hosts of youtube.com and three shop pages.
T_SHOPMIX ==
  << Visit(WWW_YOUTUBE, <<"/","w","a","t","c","h">>, <<"?","e">>, 0),
     Visit(M_YOUTUBE, <<"/","w","a","t","c","h">>, <<"?","f">>, 60000),
     Visit(NEWS, <<"/","c","h","e","c","k","o","u","t">>, NoSearch, 120000),
     Visit(NEWS, <<"/","c","a","r","t">>, NoSearch, 180000),
     Visit(NEWS, <<"/","b","u","y">>, NoSearch, 240000) >>

\* Five personal pages on two hosts of youtube.com.
T_TWOHOSTS ==
  << Visit(WWW_YOUTUBE, <<"/","w","a","t","c","h">>, <<"?","g">>, 0),
     Visit(M_YOUTUBE, <<"/","w","a","t","c","h">>, <<"?","h">>, 60000),
     Visit(WWW_YOUTUBE, <<"/","s","h","o","r","t","s">>, NoSearch, 120000),
     Visit(M_YOUTUBE, <<"/","f","e","e","d">>, NoSearch, 180000),
     Visit(WWW_YOUTUBE, <<"/","e","x","p","l","o","r","e">>, NoSearch, 240000) >>

PopupHistories ==
  { HistoryOf(<<a, b>>) : a \in {T_SHOPMIX, T_MID}, b \in {T_TWOHOSTS, T_HIGH} }

\* The popup's getRootDomain(domain), on a hostname.
PopupRootDomain_asIs(domain) == domain

PopupRootDomain(domain) ==
  IF Len(domain) > 2 THEN SubSeq(domain, Len(domain) - 1, Len(domain))
  ELSE domain

\* The data-domain of the rows makeSuggestionCard builds for suggestion s:
\* one row per domain of s.domains.slice(0, 5), each carrying its root.
DomainRows(s) ==
  LET topDomains == SubSeq(s.domains, 1, Min(Len(s.domains), 5))
  IN [k \in 1..Len(topDomains) |-> PopupRootDomain(topDomains[k])]

\* The popup before its script has run.
InitPopup ==
  /\ pc = "idle"
  /\ cards = <<>>
  /\ ignoresHandled = 0
  /\ deleting = NoDelete
  /\ inflight = <<>>
  /\ reviewing = NoReview
  /\ history \in PopupHistories
  /\ storage = EmptyStorage
  /\ msg = NoMsg
  /\ response = NoResponse
  /\ suggestions = <<>>
  /\ sessions = <<>>
  /\ url = AbsentUrl
  /\ rule = null
  /\ session = <<>>
  /\ idx = 0
  /\ acc = ScoreStart
  /\ scored = null

\* loadSuggestions() when the popup opens: GET_DOMAIN_PREFS and
\* GET_SUGGESTIONS, then renderSuggestions.
PopupOpen ==
  /\ pc = "idle"
  /\ msg' = [type |-> "GET_SUGGESTIONS"]
  /\ response' = [suggestions |-> SuggestionsResponse(storage, history)]
  /\ cards' = response'.suggestions
  /\ suggestions' = detectMixedSessions(history, storage.domainPrefs,
                                        storage.domainIgnoreCounts)
  /\ history' = ItemsAfterDetect(history)
  /\ UNCHANGED <<reviewing, inflight, ignoresHandled, deleting, pc, url, rule, storage, sessions,
                 session, idx, acc, scored>>

\* A click on the Ignore button of card k: IGNORE_SUGGESTION with the card's
\* id and the data-domain of its rows, then card.remove().
PopupIgnore(k) ==
  LET domains == DomainRows(cards[k])
  IN /\ pc = "idle"
     /\ k \in 1..Len(cards)
     /\ msg' = [type |-> "IGNORE_SUGGESTION", id |-> cards[k].id,
                domains |-> domains]
     /\ storage' = StoredAfterIgnore(storage, cards[k].id, domains)
     /\ response' = [ok |-> TRUE]
     /\ ignoresHandled' = ignoresHandled + 1
     /\ cards' = [j \in 1..(Len(cards) - 1) |->
                    IF j < k THEN cards[j] ELSE cards[j + 1]]
     /\ suggestions' = <<>>
     /\ UNCHANGED <<reviewing, inflight, deleting, pc, url, rule, history, sessions, session, idx,
                    acc, scored>>

\* A click on the tag button pref of row r of card k: the active button
\* clears the preference, the other one sets it; setDomainPref sends
\* SET_DOMAIN_PREF for the root, then loadSuggestions() renders again.
PopupTag(k, r, pref) ==
  LET root    == DomainRows(cards[k])[r]
      active  == GetOr(storage.domainPrefs, root, NullPref) = pref
      newPref == IF active THEN NullPref ELSE pref
      stored  == StoredAfterSetPref(storage, PopupRootDomain(root), newPref)
  IN /\ pc = "idle"
     /\ k \in 1..Len(cards)
     /\ r \in 1..Len(DomainRows(cards[k]))
     /\ storage' = stored
     /\ msg' = [type |-> "GET_SUGGESTIONS"]
     /\ response' = [suggestions |-> SuggestionsResponse(stored, history)]
     /\ cards' = response'.suggestions
     /\ suggestions' = detectMixedSessions(history, stored.domainPrefs,
                                           stored.domainIgnoreCounts)
     /\ history' = ItemsAfterDetect(history)
     /\ UNCHANGED <<reviewing, inflight, ignoresHandled, deleting, pc, url, rule, sessions,
                    session, idx, acc, scored>>

NextPopup ==
  \/ PopupOpen
  \/ \E k \in 1..MAX_SUGGESTIONS : PopupIgnore(k)
  \/ \E k \in 1..MAX_SUGGESTIONS, r \in 1..5, pref \in {"work", "personal"} :
       PopupTag(k, r, pref)

SpecPopup == InitPopup /\ [][NextPopup]_vars

\* C11: as long as the popup has sent fewer than 3 IGNORE_SUGGESTION
\* messages, no stored root-domain counter has reached
\* AUTO_WORK_IGNORE_COUNT.
C11_ThreeIgnoresBeforeAutoWork ==
  ignoresHandled < AUTO_WORK_IGNORE_COUNT =>
    \A r \in DOMAIN storage.domainIgnoreCounts :
      storage.domainIgnoreCounts[r] < AUTO_WORK_IGNORE_COUNT

(***************************************************************************)
(* The popup with its Review buttons                                       *)
(***************************************************************************)
\* (sugRes?.suggestions || []).find(x => x.id === id), as the places found.
FindById(found, id) == { j \in 1..Len(found) : found[j].id = id }

\* new Set(match?.allUrls || [])
ReviewUrlSet(found, id) ==
  IF FindById(found, id) = {} THEN {}
  ELSE LET match == found[CHOOSE j \in FindById(found, id) :
                            \A i \in FindById(found, id) : j <= i]
       IN { match.allUrls[j] : j \in 1..Len(match.allUrls) }

\* The entries the Review click hands to groupByDomain.
ReviewFiltered(results, urlSet) ==
  IF Cardinality(urlSet) > 0 THEN SelectSeq(results, LAMBDA r : r.url \in urlSet)
  ELSE results

\* A click on the Review button of card k: SEARCH_HISTORY over 7 days and
\* GET_SUGGESTIONS, then the entries to list.  The cards stay in the list,
\* hidden until the search is cleared.
PopupReview(k) ==
  LET found  == SuggestionsResponse(storage, history)
      urlSet == ReviewUrlSet(found, cards[k].id)
  IN /\ pc = "idle"
     /\ k \in 1..Len(cards)
     /\ msg' = [type |-> "GET_SUGGESTIONS"]
     /\ response' = [suggestions |-> found]
     /\ suggestions' = detectMixedSessions(history, storage.domainPrefs,
                                           storage.domainIgnoreCounts)
     /\ history' = ItemsAfterDetect(history)
     /\ reviewing' = [clicked |-> TRUE, id |-> cards[k].id,
                      sessionStart |-> cards[k].sessionStart,
                      sessionEnd |-> cards[k].sessionEnd,
                      matched |-> FindById(found, cards[k].id) # {},
                      urlSet |-> urlSet,
                      filtered |-> ReviewFiltered(history, urlSet)]
     /\ UNCHANGED <<inflight, cards, ignoresHandled, deleting, pc, url, rule,
                    storage, sessions, session, idx, acc, scored>>

\* The histories of the popup and one of three sessions on youtube.com.
ReviewHistories ==
  PopupHistories \cup { HistoryOf(<<T_MID, T_TWOHOSTS, T_HIGH>>) }

InitReview ==
  /\ pc = "idle"
  /\ cards = <<>>
  /\ ignoresHandled = 0
  /\ deleting = NoDelete
  /\ inflight = <<>>
  /\ reviewing = NoReview
  /\ history \in ReviewHistories
  /\ storage = EmptyStorage
  /\ msg = NoMsg
  /\ response = NoResponse
  /\ suggestions = <<>>
  /\ sessions = <<>>
  /\ url = AbsentUrl
  /\ rule = null
  /\ session = <<>>
  /\ idx = 0
  /\ acc = ScoreStart
  /\ scored = null

NextReview ==
  \/ PopupOpen
  \/ \E k \in 1..MAX_SUGGESTIONS : PopupIgnore(k)
  \/ \E k \in 1..MAX_SUGGESTIONS, r \in 1..5, pref \in {"work", "personal"} :
       PopupTag(k, r, pref)
  \/ \E k \in 1..MAX_SUGGESTIONS : PopupReview(k)

SpecReview == InitReview /\ [][NextReview]_vars

\* C28: the entries listed after a click on Review are entries of the
\* reviewed session: their url is in the allUrls the GET_SUGGESTIONS of the
\* click returned for that id, and when the id is not returned any more
\* they are still visits made between the start and the end of the session
\* on the card.
C28_ReviewListsSessionOnly ==
  reviewing.clicked =>
    \A j \in 1..Len(reviewing.filtered) :
      IF reviewing.matched THEN reviewing.filtered[j].url \in reviewing.urlSet
      ELSE /\ reviewing.filtered[j].lastVisitTime >= reviewing.sessionStart
           /\ reviewing.filtered[j].lastVisitTime <= reviewing.sessionEnd

(***************************************************************************)
(* Sessions mixing video pages with work pages                             *)
(***************************************************************************)
WorkSessionLen == 5

WorkPaths ==
  { <<"/","a","d","s","m","a","n","a","g","e","r">>, <<"/","d","a","s","h","b","o","a","r","d">>, <<"/","a","n","a","l","y","t","i","c","s">> }

WorkMixPaths == WorkPaths \cup { <<"/","w","a","t","c","h">>, <<"/","a","b","o","u","t">> }

\* One session on youtube.com, a page a minute, listed most recent first.
WorkHistory(paths, start) ==
  LET n == Len(paths)
  IN [j \in 1..n |->
        Item(j, Url(YOUTUBE, paths[n + 1 - j], NoSearch),
             start + (n - j) * MS_PER_MINUTE)]

WorkHistories ==
  { WorkHistory(p, t) : p \in [1..WorkSessionLen -> WorkMixPaths],
                        t \in {WED_9H, SAT_20H} }

InitWork ==
  /\ pc = "detect"
  /\ cards = <<>>
  /\ ignoresHandled = 0
  /\ deleting = NoDelete
  /\ inflight = <<>>
  /\ reviewing = NoReview
  /\ history \in WorkHistories
  /\ storage = EmptyStorage
  /\ sessions = <<>>
  /\ suggestions = <<>>
  /\ url = AbsentUrl
  /\ rule = null
  /\ session = <<>>
  /\ idx = 0
  /\ acc = ScoreStart
  /\ scored = null
  /\ msg = NoMsg
  /\ response = NoResponse

SpecWork == InitWork /\ [][NextDetect]_vars

\* The number of items of the history on pathname p.
Visits(p) == Cardinality({ k \in 1..Len(history) : history[k].url.pathname = p })

HasWorkUrl == \E p \in WorkPaths : Visits(p) > 0

ListedUrls(s) ==
  { s.allUrls[k] : k \in 1..Len(s.allUrls) }
    \cup UNION { { s.categories[c].urls[k] : k \in 1..Len(s.categories[c].urls) } :
                 c \in 1..Len(s.categories) }

\* C13: whenever GET_SUGGESTIONS is answered while a domain is stored as
\* "work" (by the popup, under its root), no suggestion of the answer lists a
\* URL of a host with that root, and every history item of such a host
\* scores as 3 work signals, no url intent and no category hit.
C13_WorkDomainNeverFlagged ==
  [][msg'.type = "GET_SUGGESTIONS" =>
       \A r \in DOMAIN storage'.domainPrefs :
         storage'.domainPrefs[r] = "work" =>
           /\ \A k \in 1..Len(response'.suggestions) :
                \A u \in ListedUrls(response'.suggestions[k]) :
                  getRootDomain(u) # PopupRootDomain(r)
           /\ \A k \in 1..Len(history') :
                getRootDomain(history'[k].url) = PopupRootDomain(r) =>
                  ScoreItem(ScoreStart, history'[k], storage'.domainPrefs,
                            storage'.domainIgnoreCounts)
                    = [ScoreStart EXCEPT
                         !.workSignalScore = 3,
                         !.domains = <<getDomain(history'[k].url)>>]]_vars

\* youtube.com is stored as work and the session of www.youtube.com,
\* m.youtube.com and news.org is still suggested, for its shop pages.
C13_Witness ==
  /\ msg.type = "GET_SUGGESTIONS"
  /\ YOUTUBE \in DOMAIN storage.domainPrefs
  /\ storage.domainPrefs[YOUTUBE] = "work"
  /\ \E k \in 1..Len(response.suggestions) :
       /\ WWW_YOUTUBE \in
            { response.suggestions[k].domains[j] :
                j \in 1..Len(response.suggestions[k].domains) }
       /\ response.suggestions[k].breakdown.workSignals = 6

(***************************************************************************)
(* Sessions of every score from 0.2 to 12                                  *)
(***************************************************************************)
\* The host only the k-th page of the session can be on.
OwnHost(k) == <<NEWS, MAIL, WIKI, MAPS, BLOG>>[((k - 1) % 5) + 1]

ConfidencePaths == { <<"/","w","a","t","c","h">>, <<"/","f","e","e","d">>, ROOT_PATH }

\* One session of MIN_SESSION_SIZE pages, a page a minute, most recent first:
\* page k is on youtube.com or on its own host.
ConfidenceHistories ==
  { [j \in 1..MIN_SESSION_SIZE |->
       LET k == MIN_SESSION_SIZE + 1 - j
       IN Item(j, Url(IF own[k] THEN OwnHost(k) ELSE YOUTUBE, paths[k], NoSearch),
               start + (k - 1) * MS_PER_MINUTE)] :
      own \in [1..MIN_SESSION_SIZE -> BOOLEAN],
      paths \in [1..MIN_SESSION_SIZE -> ConfidencePaths],
      start \in {WED_9H, SAT_20H} }

InitConfidence ==
  /\ pc = "detect"
  /\ cards = <<>>
  /\ ignoresHandled = 0
  /\ deleting = NoDelete
  /\ inflight = <<>>
  /\ reviewing = NoReview
  /\ history \in ConfidenceHistories
  /\ storage = EmptyStorage
  /\ sessions = <<>>
  /\ suggestions = <<>>
  /\ url = AbsentUrl
  /\ rule = null
  /\ session = <<>>
  /\ idx = 0
  /\ acc = ScoreStart
  /\ scored = null
  /\ msg = NoMsg
  /\ response = NoResponse

SpecConfidence == InitConfidence /\ [][NextDetect]_vars

\* C19: the confidence of a suggestion follows from its score alone: "high"
\* from 9 points (45 fifths), "medium" from 6 points (30 fifths) to under 9,
\* "low" below; a surfaced suggestion has 4 points or more, so it is "low"
\* exactly when its score is at least 4 and under 6.
C19_ConfidenceFromScore ==
  pc = "done" =>
    \A k \in 1..Len(suggestions) :
      LET s == suggestions[k] IN
        /\ s.confidence \in {"high", "medium", "low"}
        /\ s.confidence = "high" <=> s.score >= 45
        /\ s.confidence = "medium" <=> (30 <= s.score /\ s.score < 45)
        /\ s.confidence = "low" <=> (20 <= s.score /\ s.score < 30)

\* A suggestion of exactly 9 points is "high".
C19_Witness ==
  /\ pc = "done"
  /\ Len(suggestions) = 1
  /\ suggestions[1].score = 45
  /\ suggestions[1].confidence = "high"

(***************************************************************************)
(* DELETE_ITEMS: one deleteUrl call per url, callbacks in any order        *)
(***************************************************************************)
MaxDeleteUrls == 3

DeleteUrls == { U_WATCH, U_FEED, U_NEWS }

\* The messages the handler may get: with a list of urls, or without one.
DeleteMessages ==
  { [type |-> "DELETE_ITEMS"] }
    \cup UNION { { [type |-> "DELETE_ITEMS", urls |-> us] :
                     us \in [1..n -> DeleteUrls] } : n \in 0..MaxDeleteUrls }

\* Four visits of three urls, most recent first.
DeleteHistory ==
  << Item(1, U_WATCH, WED_9H + 3 * MS_PER_MINUTE),
     Item(2, U_NEWS, WED_9H + 2 * MS_PER_MINUTE),
     Item(3, U_FEED, WED_9H + MS_PER_MINUTE),
     Item(4, U_WATCH, WED_9H) >>

\* msg.urls || []
UrlsOf(m) == IF "urls" \in DOMAIN m THEN m.urls ELSE <<>>

\* completed + errored === urls.length, with completed alone.
AllCalledBack_successesOnly(completed, errored, n) == completed = n

\* completed + errored === urls.length
AllCalledBack(completed, errored, n) == completed + errored = n

\* A DELETE_ITEMS message has arrived; its handler has not run yet.
InitDelete ==
  /\ pc = "delete"
  /\ msg \in DeleteMessages
  /\ history = DeleteHistory
  /\ deleting = NoDelete
  /\ inflight = <<>>
  /\ reviewing = NoReview
  /\ response = NoResponse
  /\ cards = <<>>
  /\ ignoresHandled = 0
  /\ storage = EmptyStorage
  /\ sessions = <<>>
  /\ suggestions = <<>>
  /\ url = AbsentUrl
  /\ rule = null
  /\ session = <<>>
  /\ idx = 0
  /\ acc = ScoreStart
  /\ scored = null

\* The body of the DELETE_ITEMS handler: an answer at once for no urls, else
\* one deleteUrl call per list element, each with its callback pending.
DeleteItems ==
  LET urls == UrlsOf(msg)
      sent == [ok |-> TRUE, deleted |-> 0, errored |-> 0]
  IN /\ pc = "delete"
     /\ IF Len(urls) = 0
          THEN /\ deleting' = [NoDelete EXCEPT !.responses = <<sent>>]
               /\ response' = sent
               /\ pc' = "idle"
          ELSE /\ deleting' = [NoDelete EXCEPT !.urls = urls,
                                               !.pending = 1..Len(urls)]
               /\ response' = response
               /\ pc' = "deleting"
     /\ UNCHANGED <<reviewing, inflight, cards, ignoresHandled, url, rule, history, storage,
                    sessions, session, idx, acc, scored, suggestions, msg>>

\* The callback of the k-th deleteUrl call, with or without runtime.lastError;
\* the browser has removed every visit of the url unless it reports an error.
DeleteUrlCallback(k, lastError) ==
  LET completed == deleting.completed + (IF lastError THEN 0 ELSE 1)
      errored   == deleting.errored + (IF lastError THEN 1 ELSE 0)
      sent      == [ok |-> errored = 0, deleted |-> completed,
                    errored |-> errored]
      answers   == AllCalledBack(completed, errored, Len(deleting.urls))
  IN /\ pc = "deleting"
     /\ k \in deleting.pending
     /\ deleting' = [deleting EXCEPT
                       !.pending = @ \ {k},
                       !.completed = completed,
                       !.errored = errored,
                       !.responses = IF answers THEN Append(@, sent) ELSE @]
     /\ response' = IF answers THEN sent ELSE response
     /\ history' = IF lastError THEN history
                   ELSE SelectSeq(history, LAMBDA i : i.url # deleting.urls[k])
     /\ pc' = IF deleting.pending = {k} THEN "idle" ELSE "deleting"
     /\ UNCHANGED <<reviewing, inflight, cards, ignoresHandled, url, rule, storage, sessions,
                    session, idx, acc, scored, suggestions, msg>>

NextDelete ==
  \/ DeleteItems
  \/ \E k \in 1..MaxDeleteUrls, lastError \in BOOLEAN :
       DeleteUrlCallback(k, lastError)

SpecDelete == InitDelete /\ [][NextDelete]_vars

\* The handler runs once the message is delivered and the browser calls the
\* callback of every deleteUrl call it was given.
SpecDeleteLive ==
  /\ SpecDelete
  /\ WF_vars(DeleteItems)
  /\ \A k \in 1..MaxDeleteUrls :
       WF_vars(\E lastError \in BOOLEAN : DeleteUrlCallback(k, lastError))

\* The answer sent to the DELETE_ITEMS message, if any.
Answered == Len(deleting.responses) = 1

\* C20: DELETE_ITEMS is answered at most once, at once for an empty or
\* missing list and otherwise only when no callback is pending; the answer
\* has deleted + errored = number of urls and ok = (errored = 0); once all
\* callbacks have run it has been sent; and it is eventually sent.
C20_OneAnswerAfterAllCallbacks ==
  /\ [](/\ Len(deleting.responses) <= 1
        /\ Answered =>
             /\ deleting.pending = {}
             /\ deleting.responses[1].deleted + deleting.responses[1].errored
                  = Len(UrlsOf(msg))
             /\ deleting.responses[1].ok = (deleting.responses[1].errored = 0)
             /\ deleting.responses[1] = response
        /\ (pc = "deleting" /\ deleting.pending # {}) => ~Answered
        /\ pc = "idle" => Answered)
  /\ <>Answered

\* Three urls were asked for, one deleteUrl call failed and the answer
\* counts it, after the last callback.
C20_Witness ==
  /\ pc = "idle"
  /\ Len(deleting.urls) = MaxDeleteUrls
  /\ deleting.pending = {}
  /\ deleting.responses = <<[ok |-> FALSE, deleted |-> MaxDeleteUrls - 1,
                             errored |-> 1]>>

(***************************************************************************)
(* The router over a history that changes: urls are deleted and the oldest *)
(* visit leaves the 7 days history.search looks back                       *)
(***************************************************************************)
\* Six video pages on youtube.com, a page a minute.
T_LONG ==
  << Visit(YOUTUBE, <<"/","w","a","t","c","h">>, <<"?","1">>, 0),
     Visit(YOUTUBE, <<"/","w","a","t","c","h">>, <<"?","2">>, 60000),
     Visit(YOUTUBE, <<"/","w","a","t","c","h">>, <<"?","3">>, 120000),
     Visit(YOUTUBE, <<"/","w","a","t","c","h">>, <<"?","4">>, 180000),
     Visit(YOUTUBE, <<"/","w","a","t","c","h">>, <<"?","5">>, 240000),
     Visit(YOUTUBE, <<"/","w","a","t","c","h">>, <<"?","6">>, 300000) >>

ChangingHistories == { HistoryOf(<<T_LONG>>), HistoryOf(<<T_HIGH>>) }

InitChanging ==
  /\ pc = "idle"
  /\ cards = <<>>
  /\ ignoresHandled = 0
  /\ deleting = NoDelete
  /\ inflight = <<>>
  /\ reviewing = NoReview
  /\ history \in ChangingHistories
  /\ storage = EmptyStorage
  /\ msg = NoMsg
  /\ response = NoResponse
  /\ suggestions = <<>>
  /\ sessions = <<>>
  /\ url = AbsentUrl
  /\ rule = null
  /\ session = <<>>
  /\ idx = 0
  /\ acc = ScoreStart
  /\ scored = null

\* The user ignores suggestion k of the answer just received.
IgnoreShown(k) ==
  /\ msg.type = "GET_SUGGESTIONS"
  /\ k \in 1..Len(response.suggestions)
  /\ IgnoreSuggestion(response.suggestions[k].id,
                      DomainRows(response.suggestions[k]))

\* A DELETE_ITEMS message for one url of the history arrives; the router
\* takes no other message before it has answered this one.
ReceiveDelete(k) ==
  /\ pc = "idle"
  /\ k \in 1..Len(history)
  /\ msg' = [type |-> "DELETE_ITEMS", urls |-> <<history[k].url>>]
  /\ pc' = "delete"
  /\ suggestions' = <<>>
  /\ deleting' = NoDelete
  /\ UNCHANGED <<reviewing, inflight, cards, ignoresHandled, url, rule, history, storage, sessions,
                 session, idx, acc, scored, response>>

\* Time passes: the oldest visit is no longer inside the last 7 days.
OldestLeavesWindow ==
  /\ pc = "idle"
  /\ history # <<>>
  /\ history' = SubSeq(history, 1, Len(history) - 1)
  /\ UNCHANGED <<reviewing, inflight, cards, ignoresHandled, deleting, pc, url, rule, storage,
                 sessions, session, idx, acc, scored, suggestions, msg,
                 response>>

NextChanging ==
  \/ GetSuggestions
  \/ \E k \in 1..MAX_SUGGESTIONS : IgnoreShown(k)
  \/ \E pref \in {"work", "personal", NullPref} : SetDomainPref(YOUTUBE, pref)
  \/ \E k \in 1..Len(history) : ReceiveDelete(k)
  \/ DeleteItems
  \/ \E lastError \in BOOLEAN : DeleteUrlCallback(1, lastError)
  \/ OldestLeavesWindow

SpecChanging == InitChanging /\ [][NextChanging]_vars

\* C21: ignoredSessions only ever grows, and no answer to GET_SUGGESTIONS
\* holds a suggestion whose id is in ignoredSessions, whatever was handled
\* since that id was ignored.
C21_IgnoredIdStaysHidden ==
  [][/\ \A k \in 1..Len(storage.ignoredSessions) :
          \E j \in 1..Len(storage'.ignoredSessions) :
            storage'.ignoredSessions[j] = storage.ignoredSessions[k]
     /\ msg'.type = "GET_SUGGESTIONS" =>
          \A k \in 1..Len(response'.suggestions) :
            \A j \in 1..Len(storage'.ignoredSessions) :
              response'.suggestions[k].id # storage'.ignoredSessions[j]]_vars

\* An id is ignored, a url was deleted since, and GET_SUGGESTIONS would
\* still suggest the session of that id but for the ignore.
C21_Witness ==
  /\ msg.type = "GET_SUGGESTIONS"
  /\ response.suggestions = <<>>
  /\ Len(suggestions) = 1
  /\ deleting.completed = 1
  /\ \E j \in 1..Len(storage.ignoredSessions) :
       storage.ignoredSessions[j] = suggestions[1].id

\* C27: every visit of these histories belongs to one session, so once a
\* suggestion has been ignored no GET_SUGGESTIONS answer holds a suggestion
\* any more, also after a url of the session has been deleted or its
\* earliest visit has left the search window.
C27_IgnoredSessionStaysHidden ==
  (storage.ignoredSessions # <<>> /\ msg.type = "GET_SUGGESTIONS")
    => response.suggestions = <<>>

(***************************************************************************)
(* GET_SUGGESTIONS over more qualifying sessions than it returns           *)
(***************************************************************************)
\* Every slot holds a qualifying session.
FilterHistories ==
  { HistoryOf(c) : c \in [1..NumSlots -> {T_HIGH, T_MID}] }

\* Up to two ids ignored earlier, in the order they were ignored.
FilterIgnored ==
  { <<>> }
    \cup { <<SuggestionId(SlotStart(a))>> : a \in 1..NumSlots }
    \cup { <<SuggestionId(SlotStart(ab[1])), SuggestionId(SlotStart(ab[2]))>> :
             ab \in { x \in (1..NumSlots) \X (1..NumSlots) : x[1] < x[2] } }

InitFilter ==
  /\ pc = "idle"
  /\ cards = <<>>
  /\ ignoresHandled = 0
  /\ deleting = NoDelete
  /\ inflight = <<>>
  /\ reviewing = NoReview
  /\ history \in FilterHistories
  /\ storage \in { [EmptyStorage EXCEPT !.ignoredSessions = ig] :
                     ig \in FilterIgnored }
  /\ msg = NoMsg
  /\ response = NoResponse
  /\ suggestions = <<>>
  /\ sessions = <<>>
  /\ url = AbsentUrl
  /\ rule = null
  /\ session = <<>>
  /\ idx = 0
  /\ acc = ScoreStart
  /\ scored = null

NextFilter == GetSuggestions

SpecFilter == InitFilter /\ [][NextFilter]_vars

\* The qualifying sessions of the history in ranking order, all of them.
Ranked ==
  SortSuggestions(BuildSuggestions(Sessions(history), storage.domainPrefs,
                                   storage.domainIgnoreCounts))

IgnoredIds ==
  { storage.ignoredSessions[k] : k \in 1..Len(storage.ignoredSessions) }

\* C24: the answer to GET_SUGGESTIONS is the 5 best-ranked suggestions with
\* the ignored ones taken out, in ranking order; a suggestion ranked 6th or
\* lower never fills the place of an ignored one.
C24_FilterAfterTruncation ==
  msg.type = "GET_SUGGESTIONS" =>
    LET ranked == Ranked
        top    == SubSeq(ranked, 1, Min(Len(ranked), 5))
        hidden == IgnoredIds
        k      == Cardinality({ j \in 1..Len(top) : top[j].id \in hidden })
    IN /\ response.suggestions = SelectSeq(top, LAMBDA s : s.id \notin hidden)
       /\ Len(response.suggestions) = Len(top) - k
       /\ \A j \in 6..Len(ranked) :
            \A h \in 1..Len(response.suggestions) :
              response.suggestions[h].id # ranked[j].id

\* Two of the 5 best are ignored, a 6th session qualifies and is not
\* ignored, and the answer holds 3 suggestions.
C24_Witness ==
  /\ msg.type = "GET_SUGGESTIONS"
  /\ Len(response.suggestions) = 3
  /\ LET ranked == Ranked
     IN /\ Len(ranked) > 5
        /\ ranked[6].id \notin IgnoredIds
        /\ Cardinality({ j \in 1..5 : ranked[j].id \in IgnoredIds }) = 2

(***************************************************************************)
(* Handlers in flight together: the storage.get callback of one may run    *)
(* between the storage.get and the storage.set callback of another         *)
(***************************************************************************)
MaxHandlers == 2

\* The writing messages that may be in flight together.
WritingMessages ==
  { [type |-> "IGNORE_SUGGESTION", id |-> id, domains |-> <<domain>>] :
      id \in MessageIds, domain \in {YOUTUBE, WWW_YOUTUBE, NEWS} }
    \cup { [type |-> "SET_DOMAIN_PREF", domain |-> domain, pref |-> pref] :
             domain \in {YOUTUBE, NEWS}, pref \in {"work", "personal"} }

InitInterleaved ==
  /\ pc = "idle"
  /\ cards = <<>>
  /\ ignoresHandled = 0
  /\ deleting = NoDelete
  /\ inflight = <<>>
  /\ reviewing = NoReview
  /\ history = BrowserHistory
  /\ storage = EmptyStorage
  /\ msg = NoMsg
  /\ response = NoResponse
  /\ suggestions = <<>>
  /\ sessions = <<>>
  /\ url = AbsentUrl
  /\ rule = null
  /\ session = <<>>
  /\ idx = 0
  /\ acc = ScoreStart
  /\ scored = null

\* The listener runs for message m: it calls storage.local.get and returns.
Receive(m) ==
  /\ pc = "idle"
  /\ Len(inflight) < MaxHandlers
  /\ inflight' = Append(inflight, [msg |-> m, stage |-> "get", data |-> storage])
  /\ msg' = m
  /\ UNCHANGED <<reviewing, cards, ignoresHandled, deleting, pc, url, rule, history,
                 storage, sessions, session, idx, acc, scored, suggestions,
                 response>>

\* The storage.get callback of handler h: it changes what it has read and
\* calls storage.local.set with it.
GetCallback(h) ==
  /\ h \in 1..Len(inflight)
  /\ inflight[h].stage = "get"
  /\ inflight' =
       [inflight EXCEPT
          ![h].stage = "set",
          ![h].data =
            IF inflight[h].msg.type = "IGNORE_SUGGESTION"
              THEN StoredAfterIgnore(storage, inflight[h].msg.id,
                                     inflight[h].msg.domains)
              ELSE StoredAfterSetPref(storage, inflight[h].msg.domain,
                                      inflight[h].msg.pref)]
  /\ UNCHANGED <<reviewing, cards, ignoresHandled, deleting, pc, url, rule, history,
                 storage, sessions, session, idx, acc, scored, suggestions,
                 msg, response>>

\* The storage.set callback of handler h: the keys it passed are stored and
\* the answer is sent.
SetCallback(h) ==
  /\ h \in 1..Len(inflight)
  /\ inflight[h].stage = "set"
  /\ storage' =
       IF inflight[h].msg.type = "IGNORE_SUGGESTION"
         THEN [storage EXCEPT
                 !.ignoredSessions = inflight[h].data.ignoredSessions,
                 !.domainIgnoreCounts = inflight[h].data.domainIgnoreCounts]
         ELSE [storage EXCEPT !.domainPrefs = inflight[h].data.domainPrefs]
  /\ response' =
       IF inflight[h].msg.type = "IGNORE_SUGGESTION" THEN [ok |-> TRUE]
       ELSE [ok |-> TRUE, prefs |-> inflight[h].data.domainPrefs]
  /\ inflight' = [inflight EXCEPT ![h].stage = "answered"]
  /\ UNCHANGED <<reviewing, cards, ignoresHandled, deleting, pc, url, rule, history,
                 sessions, session, idx, acc, scored, suggestions, msg>>

NextInterleaved ==
  \/ \E m \in WritingMessages : Receive(m)
  \/ \E h \in 1..MaxHandlers : GetCallback(h)
  \/ \E h \in 1..MaxHandlers : SetCallback(h)

SpecInterleaved == InitInterleaved /\ [][NextInterleaved]_vars

\* The handlers of IGNORE_SUGGESTION messages that have answered.
AnsweredIgnores ==
  { h \in 1..Len(inflight) :
      inflight[h].stage = "answered" /\ inflight[h].msg.type = "IGNORE_SUGGESTION" }

AnsweredSetPrefs ==
  { h \in 1..Len(inflight) :
      inflight[h].stage = "answered" /\ inflight[h].msg.type = "SET_DOMAIN_PREF" }

\* C25: once every handler in flight has answered, the id of each
\* IGNORE_SUGGESTION is stored, each root-domain counter has gone up by one
\* for every occurrence in their domain lists, and SET_DOMAIN_PREF messages
\* on different domains have both left their preference.
C25_NoLostUpdate ==
  (\A h \in 1..Len(inflight) : inflight[h].stage = "answered") =>
    /\ \A h \in AnsweredIgnores :
         \E k \in 1..Len(storage.ignoredSessions) :
           storage.ignoredSessions[k] = inflight[h].msg.id
    /\ \A r \in { IgnoreRoot(d) : d \in {YOUTUBE, WWW_YOUTUBE, NEWS} } :
         Counter(storage, r)
           = Cardinality({ h \in AnsweredIgnores :
                             IgnoreRoot(inflight[h].msg.domains[1]) = r })
    /\ \A g, h \in AnsweredSetPrefs :
         inflight[g].msg.domain # inflight[h].msg.domain =>
           /\ inflight[h].msg.domain \in DOMAIN storage.domainPrefs
           /\ storage.domainPrefs[inflight[h].msg.domain] = inflight[h].msg.pref
====
